---- MODULE Spec2Model ----
(***************************************************************************)
(* Reflection-loop engine of codex-reflection (runConfigLowestGradePriority *)
(* and its helpers), the useModel retry wrapper and the ingestion step      *)
(* updateReflectionFiles, as state machines.                                *)
(*                                                                          *)
(* Texts are abstract names.  "null" is a missing/null value, "" the empty  *)
(* string (both falsy in the source), "absent" a key that is not present in *)
(* a round.  Averages are exact rationals <<numerator, denominator>>.       *)
(***************************************************************************)
EXTENDS Integers, Sequences, FiniteSets, TLC

\* ------------------------------------------------------------------ bounds
NumVerses == 2
MaxGrades == 2
MaxLoops == 2
IwiCap == 3
MaxTries == 2

\* ------------------------------------------------------- program constants
ITERATIONS_PASS_COMMENT_DEFAULT == 5
HighestGradeToReflect == 90

\* ---------------------------------------------------------------- values
Absent == "absent"
Null == "null"
Empty == ""
Undef == 0 - 1
None == <<>>
GradeValues == {50, 70, 95, 100}
CorrTexts == <<"c1", "c2", "c3", "c4", "c5", "c6", "c7", "c8">>
AdaptText == "ad"

Truthy(t) == t \notin {Absent, Null, Empty}

Min2(a, b) == IF a < b THEN a ELSE b
Max2(a, b) == IF a > b THEN a ELSE b

RECURSIVE SumSeq(_)
SumSeq(s) == IF s = <<>> THEN 0 ELSE Head(s) + SumSeq(Tail(s))

\* the element of a one-element set: The({F(x) : x \in {e}}) is F(e), with e
\* evaluated once
The(S) == CHOOSE x \in S : TRUE

RECURSIVE Gcd(_, _)
Gcd(a, b) == IF b = 0 THEN a ELSE Gcd(b, a % b)

\* exact rationals, denominators positive
RatNorm(r) ==
    The({IF x[1] = 0 THEN <<0, 1>>
         ELSE <<x[1] \div Gcd(x[1], x[2]), x[2] \div Gcd(x[1], x[2])>> : x \in {r}})
RatLess(a, b) == \E x \in {a}, y \in {b} : x[1] * y[2] < y[1] * x[2]
RatEq(a, b) == \E x \in {a}, y \in {b} : x[1] * y[2] = y[1] * x[2]
RatAdd(a, b) == The({<<x[1] * y[2] + y[1] * x[2], x[2] * y[2]>> : x \in {a}, y \in {b}})

\* the corrected draft the service returns when it reflects on round n
CorrText(n) == CorrTexts[Max2(1, Min2(n, Len(CorrTexts)))]

\* ------------------------------------------------------------ the records
EmptyLoop == [grades |-> <<>>, gradesIn |-> FALSE, gv |-> Absent, gvc |-> Absent,
              avg |-> None, isAdapt |-> FALSE, summ |-> FALSE]

FreshVerse(src, tr) ==
    [src |-> src, tr |-> tr, trc |-> Null, loops |-> <<>>, fin |-> FALSE,
     finGrade |-> None, finComment |-> Absent, cmlc |-> Undef, halted |-> FALSE, gradeOnly |-> FALSE,
     adapted |-> FALSE, humanReviewed |-> FALSE, ovr |-> FALSE]

VARIABLES cfg, verses, file, pc, pending, outputDirty, bestGradeFound,
          iterationsWithoutImprovement, tick, err, finalWrite, opinion, ingest, lastCall,
          tempFile

vars == <<cfg, verses, file, pc, pending, outputDirty, bestGradeFound,
          iterationsWithoutImprovement, tick, err, finalWrite, opinion, ingest, lastCall,
          tempFile>>

N == NumVerses
Idx == 1..N
Last(s) == s[Len(s)]

\* --------------------------------------------------------- Grade Aggregator
verseIsFinalized(v) == v.fin

\* value returned by computeGradeForReflectionLoop
LoopGrade_Recomputes(lp) ==
    IF Len(lp.grades) > 0 THEN <<SumSeq(lp.grades), Len(lp.grades)>>
    ELSE None

LoopGrade(lp) ==
    IF lp.avg # None THEN lp.avg
    ELSE IF Len(lp.grades) > 0 THEN <<SumSeq(lp.grades), Len(lp.grades)>>
    ELSE None

\* the round as computeGradeForReflectionLoop leaves it (memoized average)
LoopMemo(lp) ==
    IF lp.avg = None /\ Len(lp.grades) > 0 /\ Len(lp.grades) >= cfg.G
    THEN [lp EXCEPT !.avg = <<SumSeq(lp.grades), Len(lp.grades)>>]
    ELSE lp

\* index of the newest round with a computable grade, 0 if none
NewestGraded(v) ==
    LET S == {j \in 1..Len(v.loops) : LoopGrade(v.loops[j]) # None}
    IN IF S = {} THEN 0 ELSE CHOOSE j \in S : \A k \in S : k <= j

computeVerseGrade_IgnoresFinalized(v) ==
    IF v.loops = <<>> THEN None
    ELSE IF NewestGraded(v) = 0 THEN None
    ELSE LoopGrade(v.loops[NewestGraded(v)])

computeVerseGrade(v) ==
    IF v.loops = <<>> THEN None
    ELSE IF verseIsFinalized(v) THEN v.finGrade
    ELSE IF NewestGraded(v) = 0 THEN None
    ELSE LoopGrade(v.loops[NewestGraded(v)])

\* the segment as computeVerseGrade leaves it
VerseMemo(v) ==
    IF v.loops = <<>> \/ verseIsFinalized(v) \/ NewestGraded(v) = 0 THEN v
    ELSE [v EXCEPT !.loops[NewestGraded(v)] = LoopMemo(@)]

InRange(i) == i >= cfg.startLine /\ i <= cfg.endLine

RECURSIVE SumGrades(_, _)
SumGrades(vs, S) ==
    IF S = {} THEN <<0, 1>>
    ELSE LET i == CHOOSE x \in S : TRUE
         IN RatAdd(computeVerseGrade(vs[i]), SumGrades(vs, S \ {i}))

computeTranslationGrade(vs) ==
    LET Mean(S) == LET t == SumGrades(vs, S)
                   IN IF S = {} THEN <<0, 1>> ELSE RatNorm(<<t[1], t[2] * Cardinality(S)>>)
    IN The({Mean(S) : S \in {{i \in Idx : InRange(i) /\ computeVerseGrade(vs[i]) # None}}})

\* the collection as computeTranslationGrade leaves it
RangeMemo(vs) == [i \in Idx |-> IF InRange(i) THEN VerseMemo(vs[i]) ELSE vs[i]]

\* --------------------------------------------------- rounds and finalization
CmlcOr(v, d) == IF v.cmlc = Undef THEN d ELSE v.cmlc

computeReflectionLoopsNeeded(v) ==
    Max2(CmlcOr(v, 0 - ITERATIONS_PASS_COMMENT_DEFAULT)
           + (IF cfg.ipc = Undef THEN ITERATIONS_PASS_COMMENT_DEFAULT ELSE cfg.ipc),
         cfg.L)

computeNumberUnansweredGrades(v) ==
    IF v.loops = <<>> THEN 0
    ELSE IF Truthy(Last(v.loops).gv) /\ computeReflectionLoopsNeeded(v) > Len(v.loops) THEN 0
    ELSE Len(Last(v.loops).grades)

verseNeedsFinalization_OneRoundEarly(v) ==
    IF Len(v.loops) + 1 < Max2(1, computeReflectionLoopsNeeded(v)) THEN FALSE
    ELSE IF v.loops = <<>> THEN FALSE
    ELSE IF Len(Last(v.loops).grades) < cfg.G THEN FALSE
    ELSE TRUE

verseNeedsFinalization_OneRoundLate(v) ==
    IF Len(v.loops) <= Max2(1, computeReflectionLoopsNeeded(v)) THEN FALSE
    ELSE IF Len(Last(v.loops).grades) < cfg.G THEN FALSE
    ELSE TRUE

verseNeedsFinalization(v) ==
    IF Len(v.loops) < Max2(1, computeReflectionLoopsNeeded(v)) THEN FALSE
    ELSE IF Len(Last(v.loops).grades) < cfg.G THEN FALSE
    ELSE TRUE

\* verseNeedsFinalization reads .length of a grades array that does not exist
NeedsFinalizationThrows(v) ==
    /\ Len(v.loops) >= Max2(1, computeReflectionLoopsNeeded(v))
    /\ ~Last(v.loops).gradesIn

BestLoop_FromFirstRound(v) ==
    LET S == {j \in 1..Len(v.loops) : v.loops[j].avg # None}
        M == {j \in S : \A k \in S : ~RatLess(v.loops[j].avg, v.loops[k].avg)}
    IN IF S = {} THEN 0 ELSE CHOOSE j \in M : \A k \in M : k <= j

\* index of the round finalizeVerse picks, 0 if none: the highest memoized
\* average from comment_mod_loop_count onward, the latest among equals
BestLoop(v) ==
    LET S == {j \in 1..Len(v.loops) : j > CmlcOr(v, 0) /\ v.loops[j].avg # None}
        M == {j \in S : \A k \in S : ~RatLess(v.loops[j].avg, v.loops[k].avg)}
    IN IF S = {} THEN 0 ELSE CHOOSE j \in M : \A k \in M : k <= j

KeyOrNull(t) == IF t = Absent THEN Null ELSE t

\* lines 2646-2664: backfill the last round, copy the best round out, mark
FinalizeBody(v) ==
    LET b == BestLoop(v)
        n == Len(v.loops)
        w == IF Truthy(v.loops[n].gv) THEN v
             ELSE [v EXCEPT !.loops[n].gv = v.tr, !.loops[n].gvc = v.trc]
    IN IF b = 0 THEN v
       ELSE [w EXCEPT !.tr = KeyOrNull(w.loops[b].gv),
                      !.trc = KeyOrNull(w.loops[b].gvc),
                      !.fin = TRUE,
                      !.finGrade = w.loops[b].avg]

finalizeVerse_NoFinalizedGuard(v) ==
    IF ~verseNeedsFinalization(v) THEN v
    ELSE FinalizeBody(VerseMemo(v))

finalizeVerse(v) ==
    IF verseIsFinalized(v) THEN v
    ELSE IF ~verseNeedsFinalization(v) THEN v
    ELSE The({FinalizeBody(w) : w \in {VerseMemo(v)}})

\* ------------------------------------------------------ effects on a segment
\* runAdaptationPass, lines 2372-2407, once the service has answered
runAdaptationPass(v) ==
    LET l1 == IF v.loops = <<>> THEN <<EmptyLoop>> ELSE v.loops
        l2 == IF Truthy(Last(l1).gv) THEN Append(l1, EmptyLoop) ELSE l1
        n == Len(l2)
    IN [v EXCEPT !.loops = [l2 EXCEPT ![n].gvc = v.trc, ![n].gv = v.tr, ![n].isAdapt = TRUE],
                 !.tr = AdaptText, !.trc = AdaptText,
                 !.humanReviewed = FALSE, !.adapted = TRUE]

NeedsAdaptation(v) == cfg.adaptation /\ ~v.adapted

\* lines 3039-3054: the comment boundary check of the sweep
NeedsBackfill(v) ==
    /\ v.loops # <<>>
    /\ Len(v.loops) <= CmlcOr(v, 0 - 1)
    /\ (Last(v.loops).gv = Absent \/ verseIsFinalized(v))

Backfill(v) ==
    LET n == Len(v.loops)
        w == IF v.loops[n].gv = Absent
             THEN [v EXCEPT !.loops[n].gvc = v.trc, !.loops[n].gv = v.tr]
             ELSE v
    IN [w EXCEPT !.fin = FALSE]

NeededGrades_AlwaysFull(v) ==
    IF cfg.gradeMode THEN cfg.G ELSE 1

\* lines 3081-3084
NeededGrades(v) ==
    IF cfg.gradeMode THEN cfg.G - computeNumberUnansweredGrades(v) ELSE 1

\* lines 3094-3119: append the new grades
AppendGrades_Replaces(v, gs) ==
    LET l1 == IF v.loops = <<>> THEN <<EmptyLoop>> ELSE v.loops
        l2 == IF Last(l1).gv # Absent THEN Append(l1, EmptyLoop) ELSE l1
        n == Len(l2)
    IN [v EXCEPT !.loops = [l2 EXCEPT ![n].grades = gs, ![n].gradesIn = TRUE],
                 !.fin = FALSE, !.humanReviewed = FALSE]

AppendGrades(v, gs) ==
    LET l1 == IF v.loops = <<>> THEN <<EmptyLoop>> ELSE v.loops
        l2 == IF Last(l1).gv # Absent THEN Append(l1, EmptyLoop) ELSE l1
        n == Len(l2)
    IN [v EXCEPT !.loops = [l2 EXCEPT ![n].grades = @ \o gs, ![n].gradesIn = TRUE],
                 !.fin = FALSE, !.humanReviewed = FALSE]

\* lines 3246-3282: record the graded draft, install the corrected one
ApplyReflection(v0, summ) ==
    LET v == VerseMemo(v0)
        n == Len(v.loops)
    IN [v EXCEPT !.loops[n].gvc = v.trc, !.loops[n].gv = v.tr,
                 !.loops[n].summ = (@ \/ summ),
                 !.tr = CorrText(n), !.trc = CorrText(n),
                 !.humanReviewed = FALSE]

\* performReflection dereferences the newest round before any service call
ReflectionThrows(v) ==
    \/ v.loops = <<>>
    \/ ~cfg.summarize /\ ~Last(v.loops).gradesIn

\* ------------------------------------------------------------ sweep, selection
\* getOverriddenReferences: a reference is overridden when the next segment
\* carries the override marker
Overridden(vs, i) == cfg.overrideKey /\ i < N /\ vs[i + 1].ovr

SweepKind(vs, i) ==
    IF ~InRange(i) \/ vs[i].halted \/ Overridden(vs, i) THEN "none"
    ELSE IF NeedsAdaptation(vs[i]) THEN "adapt"
    ELSE IF NeedsBackfill(vs[i]) THEN "backfill"
    ELSE IF computeNumberUnansweredGrades(vs[i]) < cfg.G THEN "grade"
    ELSE "none"

MinOf(S0) == The({IF S = {} THEN 0 ELSE CHOOSE i \in S : \A j \in S : i <= j : S \in {S0}})

SweepIdx(vs) == MinOf({i \in Idx : SweepKind(vs, i) # "none"})

\* buildCommonContext: the first neighbour in the window still to be adapted
Window(s) == Max2(s - cfg.before, 1) .. Min2(s + cfg.after, N)
CtxNext(vs, s) == MinOf({j \in Window(s) : ~Overridden(vs, j) /\ NeedsAdaptation(vs[j])})

Selectable(vs, i) ==
    /\ InRange(i) /\ ~vs[i].halted /\ ~vs[i].gradeOnly
    /\ ~Overridden(vs, i) /\ ~verseIsFinalized(vs[i])
    /\ computeVerseGrade(vs[i]) # None

LowestGradedVerse_LastOfEquals(vs) ==
    LET S == {i \in Idx : Selectable(vs, i)}
        M == {i \in S : \A j \in S : ~RatLess(computeVerseGrade(vs[j]), computeVerseGrade(vs[i]))}
    IN IF M = {} THEN 0 ELSE CHOOSE i \in M : \A j \in M : j <= i

\* lines 3167-3194: strictly lower wins, so the first of equals is kept
LowestGradedVerse(vs) ==
    LET Lowest(S) == {i \in S : \A j \in S : ~RatLess(computeVerseGrade(vs[j]), computeVerseGrade(vs[i]))}
    IN MinOf(UNION {Lowest(S) : S \in {{i \in Idx : Selectable(vs, i)}}})

\* lines 3195-3203
SelectedVerse(vs) == IF cfg.debug # 0 THEN cfg.debug ELSE LowestGradedVerse(vs)

LowestGradeFound_NeverFound(vs) == None

\* the lowest grade is reported only for a segment already reflected on
LowestGradeFound_AfterFirstRound(vs) ==
    IF cfg.debug # 0 \/ LowestGradedVerse(vs) = 0 THEN None
    ELSE IF Len(vs[LowestGradedVerse(vs)].loops) < 2 THEN None
    ELSE computeVerseGrade(vs[LowestGradedVerse(vs)])

LowestGradeFound(vs) ==
    IF cfg.debug # 0 \/ LowestGradedVerse(vs) = 0 THEN None
    ELSE The({computeVerseGrade(vs[i]) : i \in {LowestGradedVerse(vs)}})

\* ------------------------------------------------------------ engine state
\* no ingestion in progress, no library call made
NoIngest == [phase |-> "none", files |-> {}, todo |-> {}, touched |-> {},
             src |-> <<>>, tgt |-> <<>>, before |-> <<>>]
NoLibCall == [op |-> "none", i |-> 0, j |-> 0, fin |-> FALSE, result |-> None]

\* tries counts how often useModel has sent the request (capped at MaxTries)
NoCall == [kind |-> "none", target |-> 0, sel |-> 0, purpose |-> "none", n |-> 0, tries |-> 0]

\* what the current iteration of the main loop has done so far
Tick0 == [sweep |-> "none", sweepIdx |-> 0, sel |-> "none", selIdx |-> 0,
          counted |-> FALSE, stopEval |-> FALSE, done |-> FALSE]

\* the texts the service is asked to grade, and the grade it gives each: the
\* service forms its opinion of a text when it first grades it (0: not yet)
Texts == {"h0", AdaptText} \cup {CorrTexts[n] : n \in 1..Len(CorrTexts)}
NoOpinion == [t \in Texts |-> 0]

\* the file "reflection.jsonl~" of saveJsonl: absent between saves
NoFile == [exists |-> FALSE, lines |-> <<>>]

\* the engine is not running
Idle ==
    /\ tempFile = NoFile
    /\ pending = NoCall
    /\ outputDirty = FALSE
    /\ bestGradeFound = <<0, 1>>
    /\ iterationsWithoutImprovement = 0
    /\ tick = Tick0
    /\ err = "none"
    /\ finalWrite = "none"
    /\ opinion = NoOpinion

engineVars == <<pending, outputDirty, bestGradeFound, iterationsWithoutImprovement,
                tick, err, finalWrite, opinion>>

St == [vs |-> verses, tk |-> tick, dirty |-> outputDirty,
       best |-> bestGradeFound, iwi |-> iterationsWithoutImprovement, op |-> opinion]

SetMem(st) ==
    /\ verses' = st.vs
    /\ tick' = st.tk
    /\ outputDirty' = st.dirty
    /\ bestGradeFound' = st.best
    /\ iterationsWithoutImprovement' = st.iwi
    /\ opinion' = st.op

\* a capability call goes out through useModel
IssueCall(st0, c) ==
    \E st \in {st0} :
    /\ SetMem(st)
    /\ pc' = "call"
    /\ pending' = c
    /\ UNCHANGED <<cfg, tempFile, file, err, finalWrite, ingest, lastCall>>

\* saveJsonl succeeds unless the disk refuses the write
DiskOk == cfg.disk = "ok"

\* lines 3338-3345: the finally block; f is the checkpoint as it stands
Finally(st0, f, endPc, e) ==
    \E st \in {st0} :
    /\ SetMem(st)
    /\ pending' = NoCall
    /\ UNCHANGED <<cfg, tempFile, ingest, lastCall>>
    /\ IF st.dirty
       THEN /\ file' = (IF DiskOk THEN st.vs ELSE f)
            /\ finalWrite' = (IF DiskOk THEN "ok" ELSE "failed")
            /\ pc' = (IF DiskOk THEN endPc ELSE "failed")
            /\ err' = (IF DiskOk THEN e ELSE "persist")
       ELSE /\ file' = f
            /\ finalWrite' = "none"
            /\ pc' = endPc
            /\ err' = e

\* an exception leaves the main loop
Throw(st, e) == Finally(st, file, "failed", e)

AfterSave(st0, f) ==
    \E st \in {st0} :
    IF st.tk.done THEN Finally(st, f, "stopped", "none")
    ELSE /\ SetMem(st)
         /\ file' = f
         /\ pc' = "loop"
         /\ pending' = NoCall
         /\ UNCHANGED <<cfg, tempFile, err, finalWrite, ingest, lastCall>>

\* lines 3291-3337: save if due, status line (computeTranslationGrade), loop test
EndTick(st0) ==
    \E st \in {st0} :
    IF st.dirty /\ cfg.saveDue
    THEN IF DiskOk
         THEN AfterSave([st EXCEPT !.vs = RangeMemo(st.vs), !.dirty = FALSE], st.vs)
         ELSE Throw(st, "persist")
    ELSE AfterSave([st EXCEPT !.vs = RangeMemo(st.vs)], file)

\* buildCommonContext, then the call the context was built for
Context(st0, s, purpose) ==
    \E st \in {st0} :
    LET j == CtxNext(st.vs, s)
    IN IF j # 0
       THEN IssueCall(st, [kind |-> "adapt", target |-> j, sel |-> s, purpose |-> purpose, n |-> 1, tries |-> 1])
       ELSE IF purpose = "grade"
       THEN IssueCall(st, [kind |-> "grade", target |-> s, sel |-> s, purpose |-> purpose,
                           n |-> NeededGrades(st.vs[s]), tries |-> 1])
       ELSE IF ReflectionThrows(st.vs[s]) THEN Throw(st, "type")
       ELSE IssueCall(st, [kind |-> (IF cfg.summarize THEN "summarize" ELSE "correct"),
                           target |-> s, sel |-> s, purpose |-> purpose, n |-> 1, tries |-> 1])

\* lines 3163-3288: choose the segment, then stop, finalize or reflect
Select(st0) ==
    \E st \in {st0} :
    \E s \in {SelectedVerse(st.vs)}, low \in {LowestGradeFound(st.vs)} :
       IF low # None /\ RatLess(<<HighestGradeToReflect, 1>>, low)
       THEN EndTick([st EXCEPT !.tk.done = TRUE])
       ELSE IF s = 0 THEN EndTick([st EXCEPT !.tk.done = TRUE])
       ELSE IF NeedsFinalizationThrows(st.vs[s]) THEN Throw(st, "type")
       ELSE IF verseNeedsFinalization(st.vs[s])
       THEN EndTick([st EXCEPT !.vs[s] = finalizeVerse(@), !.dirty = TRUE,
                               !.tk.sel = "finalize", !.tk.selIdx = s])
       ELSE Context([st EXCEPT !.tk.sel = "reflecting", !.tk.selIdx = s], s, "reflect")

\* lines 3139-3161: the branch taken whenever selectedVerse is still null
PostSweep(st0) ==
    \E st \in {st0} :
    \E avg \in {computeTranslationGrade(st.vs)} :
    LET improved == RatLess(st.best, avg)
        iwi1 == Min2(st.iwi + 1, IwiCap)
        st1 == IF cfg.manual
               THEN [st EXCEPT !.vs = RangeMemo(st.vs), !.tk.stopEval = TRUE, !.tk.done = TRUE]
               ELSE [st EXCEPT !.vs = RangeMemo(st.vs), !.tk.stopEval = TRUE,
                               !.tk.counted = TRUE,
                               !.best = (IF improved THEN avg ELSE @),
                               !.iwi = (IF improved THEN 0 ELSE iwi1),
                               !.tk.done = (~improved /\ cfg.iwiMax # Undef /\ iwi1 > cfg.iwiMax)]
    IN IF st1.tk.done THEN EndTick(st1) ELSE Select(st1)

\* --------------------------------------------------------------- the actions
StartupError_Unchecked(c) == "none"

\* lines 2917-2945: the credential test, then setFirstAndLastLine
StartupError(c) ==
    IF ~c.apiKey THEN "credential"
    ELSE IF ~c.refsMatch THEN "reference"
    ELSE "none"

\* the function throws before its try block: nothing is loaded, no finally
StartAbort ==
    /\ pc = "start"
    /\ StartupError(cfg) # "none"
    /\ pc' = "failed"
    /\ err' = StartupError(cfg)
    /\ UNCHANGED <<cfg, tempFile, verses, file, pending, outputDirty, bestGradeFound,
                   iterationsWithoutImprovement, tick, finalWrite, opinion, ingest, lastCall>>

\* lines 2939-2996: load the checkpoint, first computeTranslationGrade
Start ==
    /\ pc = "start"
    /\ StartupError(cfg) = "none"
    /\ verses' = RangeMemo(file)
    /\ bestGradeFound' = computeTranslationGrade(file)
    /\ iterationsWithoutImprovement' = 0
    /\ outputDirty' = FALSE
    /\ tick' = Tick0
    /\ pc' = "loop"
    /\ UNCHANGED <<cfg, tempFile, file, pending, err, finalWrite, opinion, ingest, lastCall>>

\* a sweep that meets a segment still to be adapted (line 3029)
TickAdapt ==
    /\ pc = "loop"
    /\ SweepIdx(verses) # 0
    /\ SweepKind(verses, SweepIdx(verses)) = "adapt"
    /\ IssueCall([St EXCEPT !.tk = [Tick0 EXCEPT !.sweepIdx = SweepIdx(verses)]],
                 [kind |-> "adapt", target |-> SweepIdx(verses), sel |-> 0,
                  purpose |-> "sweep", n |-> 1, tries |-> 1])

\* a sweep that meets the comment boundary (lines 3035-3065), and the rest of
\* that iteration
TickBackfill ==
    /\ pc = "loop"
    /\ SweepIdx(verses) # 0
    /\ SweepKind(verses, SweepIdx(verses)) = "backfill"
    /\ LET i == SweepIdx(verses)
       IN PostSweep([St EXCEPT !.vs[i] = Backfill(@), !.dirty = TRUE,
                               !.tk = [Tick0 EXCEPT !.sweep = "backfill", !.sweepIdx = i]])

\* a sweep that meets a segment short of grades (lines 3067-3092)
TickGrade ==
    /\ pc = "loop"
    /\ SweepIdx(verses) # 0
    /\ SweepKind(verses, SweepIdx(verses)) = "grade"
    /\ LET i == SweepIdx(verses)
       IN Context([St EXCEPT !.tk = [Tick0 EXCEPT !.sweepIdx = i]], i, "grade")

\* a sweep that finds nothing to do, and the rest of that iteration
TickSelect ==
    /\ pc = "loop"
    /\ SweepIdx(verses) = 0
    /\ PostSweep([St EXCEPT !.tk = Tick0])

UseModelOnError_Rethrow == "failed"

\* useModel, lines 449-470: what the catch block leads to
UseModelOnError == "backoff"

\* the service call fails (network error, timeout): caught inside useModel
CallFail ==
    /\ pc = "call"
    /\ cfg.service = "flaky"
    /\ pc' = UseModelOnError
    /\ err' = (IF UseModelOnError = "failed" THEN "service" ELSE err)
    /\ UNCHANGED <<cfg, tempFile, verses, file, pending, outputDirty, bestGradeFound,
                   iterationsWithoutImprovement, tick, finalWrite, opinion, ingest, lastCall>>

\* the 5 second wait is over: the identical request goes out again
CallRetry ==
    /\ pc = "backoff"
    /\ pc' = "call"
    /\ pending' = [pending EXCEPT !.tries = Min2(@ + 1, MaxTries)]
    /\ UNCHANGED <<cfg, tempFile, verses, file, outputDirty, bestGradeFound,
                   iterationsWithoutImprovement, tick, err, finalWrite, opinion, ingest, lastCall>>

\* useModel returns a completion whose content fails Schema.parse / JSON.parse,
\* or that carries fewer choices than requested
CallInvalid ==
    /\ pc = "call"
    /\ cfg.service = "flaky"
    /\ Throw(St, "validation")

CallOkAdapt ==
    /\ pc = "call"
    /\ pending.kind = "adapt"
    /\ LET st1 == [St EXCEPT !.vs[pending.target] = runAdaptationPass(@)]
       IN IF pending.purpose = "sweep"
          THEN PostSweep([st1 EXCEPT !.dirty = TRUE, !.tk.sweep = "adapt"])
          ELSE Context(st1, pending.sel, pending.purpose)

CallOkGrade ==
    /\ pc = "call"
    /\ pending.kind = "grade"
    /\ LET t == verses[pending.target].tr
       IN \E g \in GradeValues :
             /\ t \in Texts /\ opinion[t] # 0 => g = opinion[t]
             /\ EndTick([St EXCEPT !.vs[pending.target] =
                                      AppendGrades(@, [k \in 1..pending.n |-> g]),
                                  !.op = IF t \in Texts THEN [@ EXCEPT ![t] = g] ELSE @,
                                  !.dirty = TRUE, !.tk.sweep = "grade"])

CallOkSummarize ==
    /\ pc = "call"
    /\ pending.kind = "summarize"
    /\ IssueCall(St, [pending EXCEPT !.kind = "correct", !.tries = 1])

CallOkCorrect ==
    /\ pc = "call"
    /\ pending.kind = "correct"
    /\ EndTick([St EXCEPT !.vs[pending.target] = ApplyReflection(@, cfg.summarize),
                          !.dirty = TRUE, !.tk.sel = "reflect"])

\* ------------------------------------------------------------- initial states
\* an iterations_pass_comment larger than ITERATIONS_PASS_COMMENT_DEFAULT plus
\* every reflection_loops_per_verse of the model
LongPass == ITERATIONS_PASS_COMMENT_DEFAULT + MaxLoops + 1

\* saveDue: whether "now - lastSave > saveTimeout" holds at the end of an
\* iteration: TRUE for a timeout shorter than an iteration, FALSE for one
\* longer than the run.  service: "good" answers every call with a valid
\* response, "flaky" may fail a call or answer it with an invalid response.
\* disk: "full" makes every saveJsonl throw.
BaseCfg ==
    [G |-> 2, L |-> 1, gradeMode |-> TRUE, adaptation |-> FALSE, summarize |-> TRUE,
     manual |-> FALSE, debug |-> 0, iwiMax |-> Undef, ipc |-> Undef,
     before |-> 1, after |-> 1, startLine |-> 1, endLine |-> N,
     overrideKey |-> FALSE, reset |-> TRUE, saveDue |-> TRUE,
     service |-> "good", disk |-> "ok", apiKey |-> TRUE, refsMatch |-> TRUE]

AllCfgs ==
    [G : 1..MaxGrades, L : 1..MaxLoops, gradeMode : BOOLEAN, adaptation : BOOLEAN,
     summarize : BOOLEAN, manual : BOOLEAN, debug : 0..N, iwiMax : {Undef, 1},
     ipc : {Undef, 1, LongPass}, before : {1}, after : {1}, startLine : {1},
     endLine : {N - 1, N}, overrideKey : BOOLEAN, reset : {TRUE}, saveDue : BOOLEAN,
     service : {"good", "flaky"}, disk : {"ok", "full"}, apiKey : BOOLEAN,
     refsMatch : BOOLEAN]

\* a round left partly graded by an earlier, interrupted run
PartialLoop == [EmptyLoop EXCEPT !.grades = <<50>>, !.gradesIn = TRUE]

BaseVerse == FreshVerse("s0", "h0")

\* what an earlier run, and the reviewer's tool since, may have left in a
\* segment: nothing; the halt flag; a partly graded round; a comment added
\* after that round; the adaptation pass; the grade_only flag; the override
\* marker
InitVerses ==
    {BaseVerse,
     [BaseVerse EXCEPT !.halted = TRUE],
     [BaseVerse EXCEPT !.gradeOnly = TRUE],
     [BaseVerse EXCEPT !.ovr = TRUE],
     [BaseVerse EXCEPT !.loops = <<PartialLoop>>],
     [BaseVerse EXCEPT !.loops = <<PartialLoop>>, !.halted = TRUE],
     [BaseVerse EXCEPT !.loops = <<PartialLoop>>, !.cmlc = 1],
     runAdaptationPass(BaseVerse)}

\* the settings in which c differs from the defaults; iterations_pass_comment
\* and adaptation_prompt go with the checkpoint (see Init)
CfgDeviation(c) ==
    Cardinality({k \in DOMAIN BaseCfg \ {"ipc", "adaptation"} : c[k] # BaseCfg[k]})
        + (IF c.ipc = LongPass THEN 1 ELSE 0)

\* the defaults, and the defaults with one setting changed
Configs == {c \in AllCfgs : CfgDeviation(c) <= 1}

\* checkpoints in which at most one segment is not new
InitFiles == {f \in [Idx -> InitVerses] : Cardinality({i \in Idx : f[i] # BaseVerse}) <= 1}

CommentSeen(f) == \E i \in Idx : f[i].cmlc # Undef

AdaptationSeen(f) == \E i \in Idx : f[i].adapted

\* checkpoints in which the reviewer has put the override marker on the
\* segment after one that is new or partly graded
OverrideFiles ==
    {[i \in Idx |-> IF i = k THEN v
                    ELSE IF i = k + 1 THEN [BaseVerse EXCEPT !.ovr = TRUE]
                    ELSE BaseVerse] :
        k \in 1..(N - 1), v \in {BaseVerse, [BaseVerse EXCEPT !.loops = <<PartialLoop>>]}}

Init ==
    /\ \/ cfg \in Configs /\ file \in InitFiles
       \/ /\ cfg \in AllCfgs
          /\ cfg.overrideKey
          /\ [cfg EXCEPT !.overrideKey = FALSE] \in Configs
          /\ file \in OverrideFiles
    /\ cfg.adaptation /\ ~AdaptationSeen(file) => CfgDeviation(cfg) = 0
    /\ cfg.ipc = 1 <=> CommentSeen(file)
    /\ AdaptationSeen(file) => cfg.adaptation
    /\ \A i \in Idx : file[i].loops # <<>> /\ ~file[i].adapted => cfg.G >= 2
    /\ verses = file
    /\ pc = "start"
    /\ ingest = NoIngest
    /\ lastCall = NoLibCall
    /\ Idle

Next ==
    \/ StartAbort
    \/ Start
    \/ TickAdapt
    \/ TickBackfill
    \/ TickGrade
    \/ TickSelect
    \/ CallFail
    \/ CallRetry
    \/ CallInvalid
    \/ CallOkAdapt
    \/ CallOkGrade
    \/ CallOkSummarize
    \/ CallOkCorrect

Spec == Init /\ [][Next]_vars

\* the timer of the 5 second wait fires: a pending retry is eventually sent
FairSpec == Spec /\ WF_vars(CallRetry)

\* an answer received from the service by any of the four capabilities
CallOk == CallOkAdapt \/ CallOkGrade \/ CallOkSummarize \/ CallOkCorrect

\* a round fully graded by an earlier run
FullLoop == [EmptyLoop EXCEPT !.grades = <<50, 50>>, !.gradesIn = TRUE]

\* a segment whose only round was fully graded before the reviewer's tool
\* recorded a comment against it
CommentedVerse == [BaseVerse EXCEPT !.loops = <<FullLoop>>, !.cmlc = 1]

\* line 2563: iterations_pass_comment is read with ??, so 0 is used as given
ZeroPassCfg == [BaseCfg EXCEPT !.ipc = 0]

\* the starts of Init, and the starts with iterations_pass_comment: 0 over a
\* checkpoint that holds one commented segment
InitTermination ==
    \/ Init
    \/ /\ cfg = ZeroPassCfg
       /\ file \in {[i \in Idx |-> IF i = k THEN CommentedVerse ELSE BaseVerse] : k \in Idx}
       /\ verses = file
       /\ pc = "start"
       /\ ingest = NoIngest
       /\ lastCall = NoLibCall
       /\ Idle

\* ------------------------------------------------------------ HTML report
\* the longest collection handed to the report
MaxLines == 4

\* Array.prototype.slice(from, to) for 0 <= from and 0 <= to
Slice(s, from, to) ==
    [k \in 1..Max2(0, Min2(to, Len(s)) - from) |-> s[from + k]]

\* run, lines 598-604: the collection cut down by end_line, then by start_line
StripContent(content, c) ==
    LET cut == IF c.endLine # 0 THEN Slice(content, 0, c.endLine - 1) ELSE content
    IN IF c.startLine # 0 THEN Slice(cut, c.startLine - 1, Len(cut)) ELSE cut

\* the collection as a list of positions, the range as configured, no report
\* made yet
InitReport ==
    /\ \E s \in 1..MaxLines, e \in 1..MaxLines :
          cfg = [BaseCfg EXCEPT !.startLine = s, !.endLine = e]
    /\ verses = [i \in Idx |-> BaseVerse]
    /\ file = verses
    /\ pc = "report"
    /\ \E n \in 0..MaxLines :
          ingest = [content |-> [i \in 1..n |-> i], made |-> FALSE, report |-> <<>>]
    /\ lastCall = NoLibCall
    /\ Idle

\* the report is built from the stripped collection
RunReport ==
    /\ pc = "report"
    /\ ~ingest.made
    /\ ingest' = [ingest EXCEPT !.made = TRUE, !.report = StripContent(ingest.content, cfg)]
    /\ UNCHANGED <<cfg, tempFile, verses, file, pc, lastCall, engineVars>>

NextReport == RunReport

SpecReport == InitReport /\ [][NextReport]_vars

\* the starts of Init, and the starts with adaptation configured over a
\* checkpoint in which an earlier run adapted one segment and the reviewer
\* halted the next one before it was adapted
InitHalted ==
    \/ Init
    \/ /\ cfg = [BaseCfg EXCEPT !.adaptation = TRUE]
       /\ file \in {[i \in Idx |-> IF i = k THEN runAdaptationPass(BaseVerse)
                                  ELSE IF i = k + 1 THEN [BaseVerse EXCEPT !.halted = TRUE]
                                  ELSE BaseVerse] : k \in 1..(N - 1)}
       /\ verses = file
       /\ pc = "start"
       /\ ingest = NoIngest
       /\ lastCall = NoLibCall
       /\ Idle

SpecHalted == InitHalted /\ [][Next]_vars

\* the loop of lines 2999-3337 keeps running, and every capability call
\* eventually succeeds
TerminationSpec == InitTermination /\ [][Next]_vars /\ WF_vars(Next) /\ SF_vars(CallOk)

\* ------------------------------------------------- what the engine leaves
\* the grades of one grading response
GradeSeq(g) == [k \in 1..cfg.G |-> g]

\* segments the engine has taken through n fully graded rounds
RECURSIVE GradedRounds(_)
GradedRounds(n) ==
    IF n = 1
    THEN {VerseMemo(AppendGrades(BaseVerse, GradeSeq(g))) : g \in GradeValues}
    ELSE {VerseMemo(AppendGrades(ApplyReflection(v, cfg.summarize), GradeSeq(g))) :
             v \in GradedRounds(n - 1), g \in GradeValues}

\* segments as a run with cfg may have left them in the checkpoint
Histories ==
    {BaseVerse}
      \cup UNION {GradedRounds(n) : n \in 1..cfg.L}
      \cup UNION {{ApplyReflection(v, cfg.summarize) : v \in GradedRounds(n)} : n \in 1..(cfg.L - 1)}
      \cup {finalizeVerse(v) : v \in GradedRounds(cfg.L)}

\* a collection in which one segment has a history
OneWithHistory(vs) ==
    \E k \in Idx, h \in Histories : vs = [i \in Idx |-> IF i = k THEN h ELSE BaseVerse]

LibCfgs == {[BaseCfg EXCEPT !.G = g, !.L = l, !.reset = r] :
               g \in 1..MaxGrades, l \in 1..MaxLoops, r \in BOOLEAN}

\* comment_mod_loop_count as the reviewer's tool may have left it in a segment
\* that is not finalized: not set, or a comment arrived after round 0 or 1
Boundaries == {Undef, 0, 1}

WithBoundary(v, b) == IF verseIsFinalized(v) THEN v ELSE [v EXCEPT !.cmlc = b]

\* ------------------------------------------------ the Grade Aggregator alone
InitGrade ==
    /\ \E c \in LibCfgs, b \in Boundaries :
          /\ c.reset
          /\ cfg = [c EXCEPT !.ipc = IF b = Undef THEN Undef ELSE 1]
          /\ \E h \in Histories \cup {[BaseVerse EXCEPT !.loops = <<PartialLoop>>]} :
                verses = [i \in Idx |-> IF i = 1 THEN WithBoundary(h, b) ELSE BaseVerse]
    /\ file = verses
    /\ pc = "lib"
    /\ ingest = NoIngest
    /\ lastCall = NoLibCall
    /\ Idle

\* finalizeVerse(verse, config); file keeps the segment as it was finalized
LibFinalize(i) ==
    /\ pc = "lib"
    /\ verses[i].loops # <<>>
    /\ verses' = [verses EXCEPT ![i] = finalizeVerse(@)]
    /\ file' = IF verseIsFinalized(verses[i]) THEN file ELSE verses'
    /\ lastCall' = [op |-> "finalizeVerse", i |-> i, j |-> 0, fin |-> verses[i].fin, result |-> None]
    /\ UNCHANGED <<cfg, tempFile, pc, ingest, engineVars>>

\* computeVerseGrade(verse, config): the value returned, the average memoized
LibComputeGrade(i) ==
    /\ pc = "lib"
    /\ verses' = [verses EXCEPT ![i] = VerseMemo(@)]
    /\ lastCall' = [op |-> "computeVerseGrade", i |-> i, j |-> 0, fin |-> verses[i].fin,
                    result |-> computeVerseGrade(verses[i])]
    /\ UNCHANGED <<cfg, tempFile, file, pc, ingest, engineVars>>

\* computeGradeForReflectionLoop(reflectionLoop, config) on round j: the
\* value returned, the average memoized
LibLoopGrade(i, j) ==
    /\ pc = "lib"
    /\ verses' = [verses EXCEPT ![i].loops[j] = LoopMemo(@)]
    /\ lastCall' = [op |-> "computeGradeForReflectionLoop", i |-> i, j |-> j,
                    fin |-> verses[i].fin, result |-> LoopGrade(verses[i].loops[j])]
    /\ UNCHANGED <<cfg, tempFile, file, pc, ingest, engineVars>>

\* the grades stored in round j of a finalized segment are changed; the other
\* rounds are as they were when the segment was finalized
LibChangeGrades(i, j, g) ==
    /\ pc = "lib"
    /\ verseIsFinalized(verses[i])
    /\ \A m \in 1..Len(verses[i].loops) : m # j => verses[i].loops[m] = file[i].loops[m]
    /\ verses' = [verses EXCEPT ![i].loops[j].grades = [k \in 1..Len(@) |-> g]]
    /\ lastCall' = [op |-> "change", i |-> i, j |-> j, fin |-> verses[i].fin, result |-> None]
    /\ UNCHANGED <<cfg, tempFile, file, pc, ingest, engineVars>>

\* the average stored in round j of a finalized segment is changed
LibChangeAverage(i, j, g) ==
    /\ pc = "lib"
    /\ verseIsFinalized(verses[i])
    /\ \A m \in 1..Len(verses[i].loops) : m # j => verses[i].loops[m] = file[i].loops[m]
    /\ verses' = [verses EXCEPT ![i].loops[j].avg = <<g, 1>>]
    /\ lastCall' = [op |-> "change", i |-> i, j |-> j, fin |-> verses[i].fin, result |-> None]
    /\ UNCHANGED <<cfg, tempFile, file, pc, ingest, engineVars>>

NextGrade ==
    \/ \E i \in Idx : LibFinalize(i)
    \/ \E i \in Idx : LibComputeGrade(i)
    \/ \E i \in Idx : \E j \in 1..Len(verses[i].loops) : LibLoopGrade(i, j)
    \/ \E i \in Idx : \E j \in 1..Len(verses[i].loops) : \E g \in GradeValues :
          LibChangeGrades(i, j, g)
    \/ \E i \in Idx : \E j \in 1..Len(verses[i].loops) : \E g \in GradeValues :
          LibChangeAverage(i, j, g)

SpecGrade == InitGrade /\ [][NextGrade]_vars

\* ------------------------------------------------------------ the ingestion
SrcTexts == {Empty, "s0", "s1"}
TgtTexts == {Empty, "h0", "h1"}

\* loops[0].graded_verse ?? translation
getOldestTranslation(v) ==
    IF v.loops # <<>> /\ v.loops[1].gv \notin {Absent, Null} THEN v.loops[1].gv
    ELSE v.tr

resetVerseTo_KeepsLoops(v, text) == [v EXCEPT !.tr = text]

resetVerseTo_KeepsRounds(v, text) ==
    [v EXCEPT !.fin = FALSE,
              !.cmlc = (IF @ \in {Undef, 0} THEN @ ELSE 0),
              !.tr = text]

resetVerseTo(v, text) ==
    [v EXCEPT !.loops = <<>>,
              !.fin = FALSE,
              !.finGrade = (IF @ = None \/ @[1] = 0 THEN @ ELSE None),
              !.finComment = (IF Truthy(@) THEN Null ELSE @),
              !.cmlc = (IF @ \in {Undef, 0} THEN @ ELSE 0),
              !.tr = text]

\* the segment afterwards, and whether the update resulted in a change
updateReflectionContent(v, new_text, is_source) ==
    IF new_text = Empty THEN [verse |-> v, changed |-> FALSE]
    ELSE IF is_source
    THEN IF v.src # new_text
         THEN [verse |-> [v EXCEPT !.src = new_text], changed |-> TRUE]
         ELSE [verse |-> v, changed |-> FALSE]
    ELSE IF getOldestTranslation(v) = new_text THEN [verse |-> v, changed |-> FALSE]
    ELSE [verse |-> resetVerseTo(v, new_text), changed |-> TRUE]

InitIngest ==
    /\ cfg \in LibCfgs
    /\ cfg.G = BaseCfg.G
    /\ OneWithHistory(file)
    /\ verses = file
    /\ pc = "ingest"
    /\ ingest = NoIngest
    /\ lastCall = NoLibCall
    /\ Idle

\* updateReflectionFiles, lines 673-681: the files whose modification time
\* moved, the checkpoint loaded; the text of one segment may have changed
IngestBegin ==
    /\ pc = "ingest"
    /\ ingest.phase = "none"
    /\ \E k \in Idx, s \in SrcTexts, t \in TgtTexts,
          fs \in (SUBSET {"source", "target"}) \ {{}} :
          ingest' = [phase |-> "files", files |-> fs, todo |-> fs, touched |-> {},
                     src |-> [i \in Idx |-> IF i = k THEN s ELSE file[i].src],
                     tgt |-> [i \in Idx |-> IF i = k THEN t ELSE getOldestTranslation(file[i])],
                     before |-> file]
    /\ verses' = file
    /\ UNCHANGED <<cfg, tempFile, file, pc, lastCall, engineVars>>

\* updateReflectionContentFromFile on one file, lines 643-662
IngestFile(f) ==
    /\ pc = "ingest"
    /\ ingest.phase = "files"
    /\ f \in ingest.todo
    /\ LET text == IF f = "source" THEN ingest.src ELSE ingest.tgt
           upd == [i \in Idx |-> updateReflectionContent(verses[i], text[i], f = "source")]
       IN /\ verses' = [i \in Idx |-> upd[i].verse]
          /\ ingest' = [ingest EXCEPT !.todo = @ \ {f},
                                      !.touched = @ \cup {i \in Idx : upd[i].changed}]
    /\ UNCHANGED <<cfg, tempFile, file, pc, lastCall, engineVars>>

IngestSourceFile == IngestFile("source")

IngestTargetFile == IngestFile("target")

\* lines 693-708: reset the touched segments if the configuration calls for
\* it, save the checkpoint
IngestFinish ==
    /\ pc = "ingest"
    /\ ingest.phase = "files"
    /\ ingest.todo = {}
    /\ LET out == [i \in Idx |->
                     IF cfg.reset /\ ingest.touched # {} /\ i \in ingest.touched
                     THEN resetVerseTo(verses[i], getOldestTranslation(verses[i]))
                     ELSE verses[i]]
       IN /\ verses' = out
          /\ file' = out
    /\ ingest' = [ingest EXCEPT !.phase = "done"]
    /\ UNCHANGED <<cfg, tempFile, pc, lastCall, engineVars>>

NextIngest ==
    \/ IngestBegin
    \/ IngestSourceFile
    \/ IngestTargetFile
    \/ IngestFinish

SpecIngest == InitIngest /\ [][NextIngest]_vars

\* ---------------------------------------------- the ingestion of comments
\* One comment body.  codex: the segments that carry it in comments.json;
\* ledger: the segments recorded for it in the comment ledger; stale: the
\* modification time of comments.json is later than its updated_mod_time;
\* owed: the segments whose comment differed from the ledger when an
\* ingestion began; before: the checkpoint before any of this.
InitComments ==
    /\ cfg \in LibCfgs
    /\ cfg.G = BaseCfg.G
    /\ OneWithHistory(file)
    /\ verses = file
    /\ pc = "ingest"
    /\ ingest = [phase |-> "none", files |-> {}, todo |-> {}, touched |-> {},
                 src |-> <<>>, tgt |-> <<>>, before |-> file,
                 codex |-> {}, ledger |-> {}, stale |-> FALSE, owed |-> {}]
    /\ lastCall = NoLibCall
    /\ Idle

SymDiff(A, B) == (A \ B) \cup (B \ A)

\* the reviewer adds a comment to segment k, or removes it, between two runs
\* of the worker
CommentEdit(k) ==
    /\ pc = "ingest"
    /\ ingest.phase = "none"
    /\ ~ingest.stale
    /\ ingest' = [ingest EXCEPT !.codex = SymDiff(@, {k}), !.stale = TRUE]
    /\ UNCHANGED <<cfg, tempFile, verses, file, pc, lastCall, engineVars>>

\* updateReflectionFilesAndTimes up to the loading of the checkpoint:
\* comments.json is among the files to update
CommentsBegin ==
    /\ pc = "ingest"
    /\ ingest.phase = "none"
    /\ ingest.stale
    /\ ingest' = [ingest EXCEPT !.phase = "files", !.files = {"comments"},
                                !.todo = {"comments"}, !.touched = {},
                                !.owed = @ \cup SymDiff(ingest.codex, ingest.ledger)]
    /\ verses' = file
    /\ UNCHANGED <<cfg, tempFile, file, pc, lastCall, engineVars>>

\* loadCommentsFromFile: the ids added or removed; the ledger saved at once
IngestCommentsFile ==
    /\ pc = "ingest"
    /\ ingest.phase = "files"
    /\ "comments" \in ingest.todo
    /\ LET touchedIds == SymDiff(ingest.codex, ingest.ledger)
       IN ingest' = [ingest EXCEPT !.todo = @ \ {"comments"},
                                   !.touched = @ \cup touchedIds,
                                   !.ledger = IF touchedIds # {} THEN ingest.codex ELSE @]
    /\ UNCHANGED <<cfg, tempFile, verses, file, pc, lastCall, engineVars>>

\* updateUpdatedModTimes
RecordModTimes ==
    /\ pc = "ingest"
    /\ ingest.phase = "done"
    /\ ingest' = [ingest EXCEPT !.phase = "none", !.stale = FALSE]
    /\ UNCHANGED <<cfg, tempFile, verses, file, pc, lastCall, engineVars>>

\* the worker process is killed during the ingestion; what is in memory is
\* lost, the files stay as they are
Kill ==
    /\ pc = "ingest"
    /\ ingest.phase \in {"files", "done"}
    /\ ingest' = [ingest EXCEPT !.phase = "none", !.todo = {}, !.touched = {}]
    /\ verses' = file
    /\ UNCHANGED <<cfg, tempFile, file, pc, lastCall, engineVars>>

NextComments ==
    \/ \E k \in Idx : CommentEdit(k)
    \/ CommentsBegin
    \/ IngestCommentsFile
    \/ IngestFinish
    \/ RecordModTimes
    \/ Kill

SpecComments == InitComments /\ [][NextComments]_vars

\* ------------------------------------- the worker: ingestion, then the engine
\* runProcess: one comment edit, updateReflectionFilesAndTimes, then
\* runConfigLowestGradePriority with a service that answers every call
FirstCommentEdit(k) ==
    /\ ingest.owed = {}
    /\ CommentEdit(k)

RunEngine ==
    /\ pc = "ingest"
    /\ ingest.phase = "none"
    /\ ~ingest.stale
    /\ ingest.owed # {}
    /\ pc' = "start"
    /\ UNCHANGED <<cfg, tempFile, verses, file, ingest, lastCall, engineVars>>

NextWorker ==
    \/ \E k \in Idx : FirstCommentEdit(k)
    \/ CommentsBegin
    \/ IngestCommentsFile
    \/ IngestFinish
    \/ RecordModTimes
    \/ RunEngine
    \/ Start
    \/ TickGrade
    \/ TickSelect
    \/ CallOkGrade
    \/ CallOkSummarize
    \/ CallOkCorrect

SpecWorker == InitComments /\ [][NextWorker]_vars

\* ------------------------------------------------------------- saveJsonl
tempFilename_SameFile(filename) == filename

\* line 256: the name of the temporary file
tempFilename(filename) == filename \o "~"

CheckpointName == "reflection.jsonl"

\* the lines of a file of the checkpoint directory
LinesOf(name) == IF name = CheckpointName THEN file ELSE tempFile.lines

\* the file `name` holds `lines` afterwards
WriteLines(name, lines) ==
    IF name = CheckpointName
    THEN file' = lines /\ tempFile' = tempFile
    ELSE tempFile' = [exists |-> TRUE, lines |-> lines] /\ file' = file

\* a save of the collection in memory (verses) over the checkpoint (file)
InitSave ==
    /\ cfg \in {[c EXCEPT !.disk = d] : c \in LibCfgs, d \in {"ok", "full"}}
    /\ cfg.reset
    /\ OneWithHistory(verses)
    /\ file = [i \in Idx |-> BaseVerse]
    /\ pc = "save"
    /\ ingest = [NoIngest EXCEPT !.before = file]
    /\ lastCall = NoLibCall
    /\ Idle

\* mkdir, then writeFile opens the temporary file, truncating it
SaveOpen ==
    /\ pc = "save"
    /\ WriteLines(tempFilename(CheckpointName), <<>>)
    /\ pc' = "writing"
    /\ UNCHANGED <<cfg, verses, lastCall, ingest, engineVars>>

\* writeFile has written one more record
SaveWrite ==
    /\ pc = "writing"
    /\ Len(LinesOf(tempFilename(CheckpointName))) < Len(verses)
    /\ LET n == Len(LinesOf(tempFilename(CheckpointName)))
       IN WriteLines(tempFilename(CheckpointName), SubSeq(verses, 1, n + 1))
    /\ pc' = "writing"
    /\ UNCHANGED <<cfg, verses, lastCall, ingest, engineVars>>

\* writeFile rejects: the exception leaves saveJsonl
SaveWriteFails ==
    /\ pc = "writing"
    /\ ~DiskOk
    /\ pc' = "failed"
    /\ UNCHANGED <<cfg, tempFile, verses, file, lastCall, ingest, engineVars>>

\* line 263: rename the temporary file over the checkpoint
SaveRename ==
    /\ pc = "writing"
    /\ Len(LinesOf(tempFilename(CheckpointName))) = Len(verses)
    /\ IF tempFilename(CheckpointName) = CheckpointName
       THEN UNCHANGED <<file, tempFile>>
       ELSE file' = tempFile.lines /\ tempFile' = NoFile
    /\ pc' = "saved"
    /\ UNCHANGED <<cfg, verses, lastCall, ingest, engineVars>>

\* the process is interrupted during saveJsonl
SaveInterrupted ==
    /\ pc \in {"save", "writing"}
    /\ pc' = "interrupted"
    /\ UNCHANGED <<cfg, tempFile, verses, file, lastCall, ingest, engineVars>>

NextSave ==
    \/ SaveOpen
    \/ SaveWrite
    \/ SaveWriteFails
    \/ SaveRename
    \/ SaveInterrupted

SpecSave == InitSave /\ [][NextSave]_vars

\* ------------------------- the engine, then the ingestion at the next start
\* the target text the notebook holds for a segment, as it was first ingested
FirstIngested == BaseVerse.tr

\* the worker has ended with the run; at its next start updateReflectionFiles
\* loads the checkpoint and reads the target file again: its modification
\* time moved, its text for every segment is as first ingested
ReingestBegin ==
    /\ pc \in {"stopped", "failed"}
    /\ pc' = "ingest"
    /\ ingest' = [phase |-> "files", files |-> {"target"}, todo |-> {"target"},
                  touched |-> {},
                  src |-> [i \in Idx |-> file[i].src],
                  tgt |-> [i \in Idx |-> FirstIngested],
                  before |-> file]
    /\ verses' = file
    /\ UNCHANGED <<cfg, tempFile, file, lastCall, engineVars>>

NextReingest ==
    \/ Next
    \/ ReingestBegin
    \/ IngestTargetFile
    \/ IngestFinish

SpecReingest == Init /\ [][NextReingest]_vars

\* ---------------------------------------------- saveJsonl, then loadJsonl
\* a segment without any key, and a round without any key: the value the
\* model gives to each key that is missing
NoKeysVerse == [FreshVerse(Absent, Absent) EXCEPT !.trc = Absent]

\* JSON.stringify of an object: a key whose value is undefined is left out
JSONStringifyObject(obj, noKeys) ==
    [k \in {f \in DOMAIN obj : obj[f] # noKeys[f]} |-> obj[k]]

\* JSON.parse of that text: keys left out are missing
JSONParseObject(text, noKeys) ==
    [k \in DOMAIN noKeys |-> IF k \in DOMAIN text THEN text[k] ELSE noKeys[k]]

\* JSON.stringify(line) for a segment, its rounds included
JSONStringify(v) ==
    JSONStringifyObject(
        [v EXCEPT !.loops = [j \in 1..Len(v.loops) |-> JSONStringifyObject(v.loops[j], EmptyLoop)]],
        NoKeysVerse)

JSONParse(text) ==
    LET o == JSONParseObject(text, NoKeysVerse)
    IN [o EXCEPT !.loops = [j \in 1..Len(o.loops) |-> JSONParseObject(o.loops[j], EmptyLoop)]]

\* the newline character, and the text of one line, in a file content
NewLine == [newline |-> TRUE]

LineText(text) == [json |-> text]

\* lines.join('\n'): the file content as a sequence of line texts and newlines
RECURSIVE Join(_)
Join(lines) ==
    IF lines = <<>> THEN <<>>
    ELSE IF Len(lines) = 1 THEN <<lines[1]>>
    ELSE <<lines[1], NewLine>> \o Join(Tail(lines))

\* content.split('\n'): the pieces between the newlines, each a sequence
RECURSIVE Split(_, _)
Split(content, piece) ==
    IF content = <<>> THEN <<piece>>
    ELSE IF Head(content) = NewLine THEN <<piece>> \o Split(Tail(content), <<>>)
    ELSE Split(Tail(content), Append(piece, Head(content)))

\* line.trim() is truthy
NonBlank(piece) == piece # <<>>

\* JSON.parse(line); the empty text is not JSON
ParseLine(piece) ==
    IF piece = <<>> THEN [error |-> "SyntaxError"] ELSE JSONParse(piece[1].json)

loadJsonl_NoFilter(content) ==
    LET pieces == Split(content, <<>>)
    IN [n \in 1..Len(pieces) |-> ParseLine(pieces[n])]

\* lines 232-233: split, drop the blank lines, parse
loadJsonl(content) ==
    LET pieces == SelectSeq(Split(content, <<>>), NonBlank)
    IN [n \in 1..Len(pieces) |-> ParseLine(pieces[n])]

\* lines 259-260: the content saveJsonl writes
saveJsonlContent(data) ==
    Join([n \in 1..Len(data) |-> LineText(JSONStringify(data[n]))])

\* collections of 0..N segments, one of them with a history or a flag
Collections ==
    {<<>>} \cup
    UNION {{[i \in 1..n |-> IF i = k THEN h ELSE BaseVerse] :
               k \in 1..n, h \in Histories \cup InitVerses} : n \in 1..N}

\* the collection in memory (verses); the file does not exist yet
InitRoundTrip ==
    /\ cfg \in LibCfgs
    /\ cfg.reset
    /\ verses \in Collections
    /\ file = <<>>
    /\ pc = "save"
    /\ ingest = [NoIngest EXCEPT !.before = verses]
    /\ lastCall = NoLibCall
    /\ Idle

\* saveJsonl(filename, verses): file is the collection that loadJsonl reads
\* from the content written
RoundTripSave ==
    /\ pc = "save"
    /\ file' = loadJsonl(saveJsonlContent(verses))
    /\ pc' = "saved"
    /\ UNCHANGED <<cfg, tempFile, verses, lastCall, ingest, engineVars>>

\* the next process loads the checkpoint
RoundTripLoad ==
    /\ pc = "saved"
    /\ verses' = file
    /\ pc' = "loaded"
    /\ UNCHANGED <<cfg, tempFile, file, lastCall, ingest, engineVars>>

NextRoundTrip ==
    \/ RoundTripSave
    \/ RoundTripLoad

SpecRoundTrip == InitRoundTrip /\ [][NextRoundTrip]_vars

\* ------------------------------------------------- loadCommentsFromFile
\* comments.json is a list of threads, each on one segment (cellId) with a
\* list of comments; the comment ledger is a list of {comment, ids, name}.
\* In this specification ingest holds codexComments (the content of
\* comments.json), collectedComments (the content of the ledger file) and
\* touchedIds (what the call that has just ended returned).
MaxThreads == 2

MaxComments == 1

\* comment bodies; "constructor" is also the name of a property that every
\* object inherits
Bodies == {"c1", "c2", "constructor"}

ObjectPrototypeKeys == {"constructor"}

AuthorName == "a1"

Unknown == "<unknown>"

\* array.includes(x)
Includes(list, x) == \E k \in 1..Len(list) : list[k] = x

\* an object { [key]: string[] } as the sequence of its own entries, in
\* insertion order
HasOwn(obj, key) == \E k \in 1..Len(obj) : obj[k].key = key

\* obj[key] ?? []
Get(obj, key) ==
    IF HasOwn(obj, key) THEN obj[CHOOSE k \in 1..Len(obj) : obj[k].key = key].ids ELSE <<>>

\* if (!obj[key]) obj[key] = []; if (!obj[key].includes(id)) obj[key].push(id)
PushId(obj, key, id) ==
    IF ~HasOwn(obj, key) THEN Append(obj, [key |-> key, ids |-> <<id>>])
    ELSE [k \in 1..Len(obj) |->
             IF obj[k].key = key /\ ~Includes(obj[k].ids, id)
             THEN [obj[k] EXCEPT !.ids = Append(@, id)] ELSE obj[k]]

\* delete obj[key]
DeleteKey(obj, key) == SelectSeq(obj, LAMBDA e : e.key # key)

\* lines 533-546: the (body, id) pairs of the comments of one thread that
\* are not deleted
RECURSIVE CommentPairs(_, _)
CommentPairs(comments, id) ==
    IF comments = <<>> THEN <<>>
    ELSE (IF ~Head(comments).deleted
          THEN <<[body |-> Head(comments).body, id |-> id, name |-> Head(comments).name]>>
          ELSE <<>>) \o CommentPairs(Tail(comments), id)

\* lines 531-548: those of the threads that are not deleted
RECURSIVE ThreadPairs(_)
ThreadPairs(threads) ==
    IF threads = <<>> THEN <<>>
    ELSE (IF ~Head(threads).deleted
          THEN CommentPairs(Head(threads).comments, Head(threads).cellId)
          ELSE <<>>) \o ThreadPairs(Tail(threads))

\* the (body, id) pairs held by an object, in the order of Object.entries
RECURSIVE ObjPairs(_)
ObjPairs(obj) ==
    IF obj = <<>> THEN <<>>
    ELSE [k \in 1..Len(Head(obj).ids) |-> [body |-> Head(obj).key, id |-> Head(obj).ids[k]]]
         \o ObjPairs(Tail(obj))

\* lines 553-563: those of the ledger
LedgerPairs(currentComments) ==
    ObjPairs([k \in 1..Len(currentComments) |->
                 [key |-> currentComments[k].comment, ids |-> currentComments[k].ids]])

RECURSIVE HashPairs(_, _)
HashPairs(pairs, obj) ==
    IF pairs = <<>> THEN obj
    ELSE HashPairs(Tail(pairs), PushId(obj, Head(pairs).body, Head(pairs).id))

\* lines 538 and 541: the body of a comment names an inherited property, so
\* obj[body] is that property, which is truthy and has no includes method
ThrowsTypeError(threads) ==
    LET pairs == ThreadPairs(threads)
    IN \E k \in 1..Len(pairs) : pairs[k].body \in ObjectPrototypeKeys

\* line 544 and line 633: the name recorded for body + "&" + id
NameOf(threads, body, id) ==
    LET pairs == ThreadPairs(threads)
        hits == {k \in 1..Len(pairs) : pairs[k].body = body /\ pairs[k].id = id}
    IN IF hits = {} THEN Unknown
       ELSE pairs[CHOOSE k \in hits : \A m \in hits : m <= k].name

\* lines 575-602: the pairs of one object that the other does not hold
Differences(from, other) ==
    HashPairs(SelectSeq(ObjPairs(from), LAMBDA p : ~Includes(Get(other, p.body), p.id)), <<>>)

\* the ids pushed to a list unless it includes them
RECURSIVE PushAll(_, _)
PushAll(list, xs) ==
    IF xs = <<>> THEN list
    ELSE PushAll(IF Includes(list, Head(xs)) THEN list ELSE Append(list, Head(xs)), Tail(xs))

\* ids.splice(ids.indexOf(id), 1) for each id to remove that ids includes
RECURSIVE SpliceAll(_, _)
SpliceAll(ids, xs) ==
    IF xs = <<>> THEN ids
    ELSE LET x == Head(xs)
             at == CHOOSE k \in 1..Len(ids) : ids[k] = x /\ \A m \in 1..(k - 1) : ids[m] # x
         IN SpliceAll(IF Includes(ids, x)
                      THEN [k \in 1..(Len(ids) - 1) |-> IF k < at THEN ids[k] ELSE ids[k + 1]]
                      ELSE ids, Tail(xs))

RECURSIVE ApplyChanges_KeepsEmpty(_, _, _)
ApplyChanges_KeepsEmpty(currentComments, additions, removals) ==
    IF currentComments = <<>> THEN [comments |-> <<>>, additions |-> additions]
    ELSE LET c == Head(currentComments)
             ids == SpliceAll(PushAll(c.ids, Get(additions, c.comment)), Get(removals, c.comment))
             rest == ApplyChanges_KeepsEmpty(Tail(currentComments), DeleteKey(additions, c.comment), removals)
         IN [comments |-> <<[c EXCEPT !.ids = ids]>> \o rest.comments,
             additions |-> rest.additions]

\* lines 609-629: the pass through the ledger; an entry left without ids is
\* spliced out, and the additions it took are deleted from additions
RECURSIVE ApplyChanges(_, _, _)
ApplyChanges(currentComments, additions, removals) ==
    IF currentComments = <<>> THEN [comments |-> <<>>, additions |-> additions]
    ELSE LET c == Head(currentComments)
             ids == SpliceAll(PushAll(c.ids, Get(additions, c.comment)), Get(removals, c.comment))
             rest == ApplyChanges(Tail(currentComments), DeleteKey(additions, c.comment), removals)
         IN [comments |-> (IF ids = <<>> THEN <<>> ELSE <<[c EXCEPT !.ids = ids]>>) \o rest.comments,
             additions |-> rest.additions]

\* lines 527-634: the ledger after the call and the ids it returns
UpdatedLedger(codexComments, currentComments) ==
    LET codexCommentsValueToIds == HashPairs(ThreadPairs(codexComments), <<>>)
        currentCommentsValueToIds == HashPairs(LedgerPairs(currentComments), <<>>)
        additions == Differences(codexCommentsValueToIds, currentCommentsValueToIds)
        removals == Differences(currentCommentsValueToIds, codexCommentsValueToIds)
        changed == ObjPairs(additions) \o ObjPairs(removals)
        touched == [k \in 1..Len(changed) |-> changed[k].id]
        pass == ApplyChanges(currentComments, additions, removals)
    IN [touchedIds |-> PushAll(<<>>, touched),
        currentComments |->
            pass.comments \o
            [k \in 1..Len(pass.additions) |->
                [comment |-> pass.additions[k].key, ids |-> pass.additions[k].ids,
                 name |-> NameOf(codexComments, pass.additions[k].key, pass.additions[k].ids[1])]]]

\* neither file exists yet: loadJson and loadJsonl give their default, []
InitLedger ==
    /\ cfg = BaseCfg
    /\ verses = [i \in Idx |-> BaseVerse]
    /\ file = verses
    /\ pc = "edit"
    /\ ingest = [codexComments |-> <<>>, collectedComments |-> <<>>, touchedIds |-> <<>>]
    /\ lastCall = NoLibCall
    /\ Idle

\* the reviewer opens a thread on segment i
AddThread(i) ==
    /\ Len(ingest.codexComments) < MaxThreads
    /\ ingest' = [ingest EXCEPT !.touchedIds = <<>>, !.codexComments =
                      Append(@, [deleted |-> FALSE, cellId |-> i, comments |-> <<>>])]
    /\ pc' = "edit"
    /\ UNCHANGED <<cfg, tempFile, verses, file, lastCall, engineVars>>

\* the reviewer writes a comment in thread t
AddComment(t, body) ==
    /\ ~ingest.codexComments[t].deleted
    /\ Len(ingest.codexComments[t].comments) < MaxComments
    /\ ingest' = [ingest EXCEPT !.touchedIds = <<>>, !.codexComments[t].comments =
                      Append(@, [deleted |-> FALSE, body |-> body, name |-> AuthorName])]
    /\ pc' = "edit"
    /\ UNCHANGED <<cfg, tempFile, verses, file, lastCall, engineVars>>

\* the reviewer deletes comment c of thread t: it is marked, not removed
DeleteComment(t, c) ==
    /\ ~ingest.codexComments[t].comments[c].deleted
    /\ ingest' = [ingest EXCEPT !.touchedIds = <<>>, !.codexComments[t].comments[c].deleted = TRUE]
    /\ pc' = "edit"
    /\ UNCHANGED <<cfg, tempFile, verses, file, lastCall, engineVars>>

\* the reviewer deletes thread t
DeleteThread(t) ==
    /\ ~ingest.codexComments[t].deleted
    /\ ingest' = [ingest EXCEPT !.touchedIds = <<>>, !.codexComments[t].deleted = TRUE]
    /\ pc' = "edit"
    /\ UNCHANGED <<cfg, tempFile, verses, file, lastCall, engineVars>>

\* comments.json is removed
RemoveCommentsFile ==
    /\ ingest.codexComments # <<>>
    /\ ingest' = [ingest EXCEPT !.touchedIds = <<>>, !.codexComments = <<>>]
    /\ pc' = "edit"
    /\ UNCHANGED <<cfg, tempFile, verses, file, lastCall, engineVars>>

\* loadCommentsFromFile returns: the ledger is saved if an id was touched
LoadCommentsReturns ==
    /\ ~ThrowsTypeError(ingest.codexComments)
    /\ LET r == UpdatedLedger(ingest.codexComments, ingest.collectedComments)
       IN ingest' = [ingest EXCEPT !.touchedIds = r.touchedIds,
                                   !.collectedComments =
                                       IF Len(r.touchedIds) > 0 THEN r.currentComments ELSE @]
    /\ pc' = "returned"
    /\ UNCHANGED <<cfg, tempFile, verses, file, lastCall, engineVars>>

\* loadCommentsFromFile throws while it hashes the comments
LoadCommentsThrows ==
    /\ ThrowsTypeError(ingest.codexComments)
    /\ ingest' = [ingest EXCEPT !.touchedIds = <<>>]
    /\ pc' = "threw"
    /\ UNCHANGED <<cfg, tempFile, verses, file, lastCall, engineVars>>

NextLedger ==
    \/ \E i \in Idx : AddThread(i)
    \/ \E t \in 1..Len(ingest.codexComments) : \E body \in Bodies : AddComment(t, body)
    \/ \E t \in 1..Len(ingest.codexComments) :
           \E c \in 1..Len(ingest.codexComments[t].comments) : DeleteComment(t, c)
    \/ \E t \in 1..Len(ingest.codexComments) : DeleteThread(t)
    \/ RemoveCommentsFile
    \/ LoadCommentsReturns
    \/ LoadCommentsThrows

SpecLedger == InitLedger /\ [][NextLedger]_vars

\* ------------------------------------------------ the Staleness Tracker
\* The files the worker watches, their modification times on disk (0: the
\* file does not exist) and observed_mod_times.json.  In this specification
\* ingest holds mtime and bad (the file's content makes its ingestion
\* throw), tracked (observed_mod_times.json; observed is Undef for a file
\* without an entry, updated 0 is new Date(0)), trackingModTimes (the copy
\* in memory), todo (the files to update not yet tried),
\* successfullyUpdatedFiles, threw (the files whose last ingestion threw) and
\* written (the checkpoint was saved in this run).
MaxModTime == 2

WatchedFiles == {"target", "comments"}

NoTracking == [f \in WatchedFiles |-> [observed |-> Undef, updated |-> 0]]

\* lines 362-385: the entries after the modification times on disk were seen
updateObservedModTimes(observedModTimes, newModTimes) ==
    [f \in WatchedFiles |->
        IF newModTimes[f] = 0 THEN observedModTimes[f]
        ELSE IF observedModTimes[f].observed = Undef
             THEN [observed |-> newModTimes[f], updated |-> 0]
             ELSE IF observedModTimes[f].observed < newModTimes[f]
                  THEN [observedModTimes[f] EXCEPT !.observed = newModTimes[f]]
                  ELSE observedModTimes[f]]

\* lines 399-406
getFilesToUpdate(trackingModTimes) ==
    {f \in WatchedFiles : trackingModTimes[f].observed # Undef
                          /\ trackingModTimes[f].observed > trackingModTimes[f].updated}

\* lines 386-397
updateUpdatedModTimes(trackingModTimes, filesToUpdate) ==
    [f \in WatchedFiles |->
        IF f \in filesToUpdate /\ trackingModTimes[f].updated < trackingModTimes[f].observed
        THEN [trackingModTimes[f] EXCEPT !.updated = trackingModTimes[f].observed]
        ELSE trackingModTimes[f]]

Recorded_EvenIfThrown(successfullyUpdatedFiles, f, thrown) == successfullyUpdatedFiles \cup {f}

\* lines 686-693: a file is recorded as updated unless its ingestion threw
Recorded(successfullyUpdatedFiles, f, thrown) ==
    IF thrown THEN successfullyUpdatedFiles ELSE successfullyUpdatedFiles \cup {f}

InitModTimes ==
    /\ cfg = BaseCfg
    /\ verses = [i \in Idx |-> BaseVerse]
    /\ file = verses
    /\ pc = "idle"
    /\ ingest = [mtime |-> [f \in WatchedFiles |-> 0], bad |-> [f \in WatchedFiles |-> FALSE],
                 tracked |-> NoTracking, trackingModTimes |-> NoTracking, todo |-> {},
                 successfullyUpdatedFiles |-> {}, threw |-> {}, written |-> FALSE]
    /\ lastCall = NoLibCall
    /\ Idle

\* the translator's tool writes file f, or an older copy of it is restored
WriteFile(f, t, b) ==
    /\ t # ingest.mtime[f]
    /\ ingest' = [ingest EXCEPT !.mtime[f] = t, !.bad[f] = b]
    /\ UNCHANGED <<cfg, tempFile, verses, file, pc, lastCall, engineVars>>

\* updateReflectionFilesAndTimes up to the loading of the checkpoint
TrackBegin ==
    /\ pc = "idle"
    /\ LET t == updateObservedModTimes(ingest.tracked, ingest.mtime)
       IN ingest' = [ingest EXCEPT !.tracked = t, !.trackingModTimes = t,
                                   !.todo = getFilesToUpdate(t),
                                   !.successfullyUpdatedFiles = {}, !.written = FALSE]
    /\ pc' = "files"
    /\ UNCHANGED <<cfg, tempFile, verses, file, lastCall, engineVars>>

\* updateReflectionContentFromFile on one file, inside the try of the loop
TrackIngest(f) ==
    /\ pc = "files"
    /\ f \in ingest.todo
    /\ ingest' = [ingest EXCEPT !.todo = @ \ {f},
                                !.successfullyUpdatedFiles = Recorded(@, f, ingest.bad[f]),
                                !.threw = IF ingest.bad[f] THEN @ \cup {f} ELSE @ \ {f}]
    /\ UNCHANGED <<cfg, tempFile, verses, file, pc, lastCall, engineVars>>

\* lines 705-708: the checkpoint is saved if a file was updated
TrackSave ==
    /\ pc = "files"
    /\ ingest.todo = {}
    /\ ingest' = [ingest EXCEPT !.written = ingest.successfullyUpdatedFiles # {}]
    /\ pc' = "saved"
    /\ UNCHANGED <<cfg, tempFile, verses, file, lastCall, engineVars>>

\* saveJsonl throws: runProcess catches the error, the run is over
TrackSaveFails ==
    /\ pc = "files"
    /\ ingest.todo = {}
    /\ ingest.successfullyUpdatedFiles # {}
    /\ pc' = "idle"
    /\ UNCHANGED <<cfg, tempFile, verses, file, ingest, lastCall, engineVars>>

\* line 719
TrackRecord ==
    /\ pc = "saved"
    /\ ingest' = [ingest EXCEPT !.tracked =
                      updateUpdatedModTimes(ingest.trackingModTimes, ingest.successfullyUpdatedFiles)]
    /\ pc' = "idle"
    /\ UNCHANGED <<cfg, tempFile, verses, file, lastCall, engineVars>>

\* the worker is killed
TrackKill ==
    /\ pc \in {"files", "saved"}
    /\ pc' = "idle"
    /\ UNCHANGED <<cfg, tempFile, verses, file, ingest, lastCall, engineVars>>

NextModTimes ==
    \/ \E f \in WatchedFiles, t \in 1..MaxModTime, b \in BOOLEAN : WriteFile(f, t, b)
    \/ TrackBegin
    \/ \E f \in WatchedFiles : TrackIngest(f)
    \/ TrackSave
    \/ TrackSaveFails
    \/ TrackRecord
    \/ TrackKill

SpecModTimes == InitModTimes /\ [][NextModTimes]_vars

\* ------------------------------------------------------- the audit CSV
\* lines 3311-3333.  In this specification ingest holds csv (the lines of
\* the file on disk), streams (the write streams created and not yet
\* flushed, oldest first, each with the lines written to it) and ticks (the
\* iterations logged so far).  A line is the header or the number of the
\* iteration whose row it is.
MaxRows == 7

\* 'time,average_grade,action_done,best_grade_found,iterations_without_improvement'
Header == 0

\* line 3322: !fs.existsSync(file) || fs.statSync(file).size === 0
isNewFile(csv) == csv = <<>>

\* lines 3323-3332: what one iteration writes to its stream
LogLines(csv, row) ==
    (IF isNewFile(csv) THEN <<Header>> ELSE <<>>) \o <<row>>

InitCsv ==
    /\ cfg = BaseCfg
    /\ verses = [i \in Idx |-> BaseVerse]
    /\ file = verses
    /\ pc = "csv"
    /\ ingest = [csv |-> <<>>, streams |-> <<>>, ticks |-> 0]
    /\ lastCall = NoLibCall
    /\ Idle

\* the end of an iteration: the stream is created, written to and ended;
\* nothing is awaited
CsvLog ==
    /\ ingest.ticks < MaxRows
    /\ ingest' = [ingest EXCEPT !.ticks = @ + 1,
                                !.streams = Append(@, LogLines(ingest.csv, ingest.ticks + 1))]
    /\ UNCHANGED <<cfg, tempFile, verses, file, pc, lastCall, engineVars>>

\* the oldest stream opens the file for appending and its lines reach it
CsvFlush ==
    /\ ingest.streams # <<>>
    /\ ingest' = [ingest EXCEPT !.csv = @ \o Head(ingest.streams), !.streams = Tail(@)]
    /\ UNCHANGED <<cfg, tempFile, verses, file, pc, lastCall, engineVars>>

\* the file is removed between two runs, when every stream has ended
CsvRemoved ==
    /\ ingest.streams = <<>>
    /\ ingest.csv # <<>>
    /\ ingest' = [ingest EXCEPT !.csv = <<>>, !.ticks = 0]
    /\ UNCHANGED <<cfg, tempFile, verses, file, pc, lastCall, engineVars>>

NextCsv ==
    \/ CsvLog
    \/ CsvFlush
    \/ CsvRemoved

SpecCsv == InitCsv /\ [][NextCsv]_vars

\* ------------------------------------------- compareReflectionContentItems
\* References are texts "<book> <chapter>:<verse>" with one-digit chapter
\* and verse, or a text the pattern /(\w+)\s(\d+):(\d+)/ does not match
\* (book "intro", chapter and verse 0).  In this specification ingest holds
\* three references a, b, c and, once compared, the four results.
RefBooks == {"GEN", "EXO", "FOO"}

RefNumbers == {1, 2}

References ==
    {[matches |-> TRUE, book |-> k, chapter |-> ch, verse |-> v] :
        k \in RefBooks, ch \in RefNumbers, v \in RefNumbers}
      \cup {[matches |-> FALSE, book |-> "intro", chapter |-> 0, verse |-> 0]}

\* BOOK_ORDER.indexOf(book): "Genesis", "GEN", "Exodus", "EXO", ...; -1 for a
\* book that is not in the list
BookIndex(book) ==
    CASE book = "GEN" -> 1
      [] book = "EXO" -> 3
      [] OTHER -> -1

\* the place of the first word of a reference in the order of localeCompare
LexRank(book) ==
    CASE book = "EXO" -> 1
      [] book = "FOO" -> 2
      [] book = "GEN" -> 3
      [] OTHER -> 4

Sign(n) == IF n < 0 THEN -1 ELSE IF n > 0 THEN 1 ELSE 0

\* a_vref.localeCompare(b_vref): the texts compared from their first word on
localeCompare(a, b) ==
    IF LexRank(a.book) # LexRank(b.book) THEN Sign(LexRank(a.book) - LexRank(b.book))
    ELSE IF a.chapter # b.chapter THEN Sign(a.chapter - b.chapter)
    ELSE Sign(a.verse - b.verse)

\* lines 191-220
compareReflectionContentItems(a, b) ==
    IF a.matches /\ b.matches
    THEN IF a.book # b.book
         THEN IF BookIndex(a.book) = -1 \/ BookIndex(b.book) = -1
              THEN localeCompare(a, b)
              ELSE BookIndex(a.book) - BookIndex(b.book)
         ELSE IF a.chapter - b.chapter # 0 THEN a.chapter - b.chapter
              ELSE a.verse - b.verse
    ELSE localeCompare(a, b)

InitSort ==
    /\ cfg = BaseCfg
    /\ verses = [i \in Idx |-> BaseVerse]
    /\ file = verses
    /\ pc = "sort"
    /\ \E a \in References, b \in References, c \in References :
          ingest = [a |-> a, b |-> b, c |-> c, compared |-> FALSE,
                    ab |-> 0, ba |-> 0, bc |-> 0, ac |-> 0]
    /\ lastCall = NoLibCall
    /\ Idle

\* the comparisons that a sort of a, b, c may make
Compare ==
    /\ ~ingest.compared
    /\ ingest' = [ingest EXCEPT !.compared = TRUE,
                      !.ab = compareReflectionContentItems(ingest.a, ingest.b),
                      !.ba = compareReflectionContentItems(ingest.b, ingest.a),
                      !.bc = compareReflectionContentItems(ingest.b, ingest.c),
                      !.ac = compareReflectionContentItems(ingest.a, ingest.c)]
    /\ UNCHANGED <<cfg, tempFile, verses, file, pc, lastCall, engineVars>>

NextSort == Compare

SpecSort == InitSort /\ [][NextSort]_vars

\* ===================================================================
\* Properties of the engine (specification Spec)

\* the calls that grade a segment or reflect on it
GradingOrReflection == {"grade", "summarize", "correct"}

\* C1 (as stated): no grading call and no reflection call is ever issued for
\* a segment whose ai_halted flag is true, whatever the configuration.
C1_HaltedNeverCalled ==
    (pc \in {"call", "backoff"} /\ pending.kind \in GradingOrReflection)
        => ~verses[pending.target].halted

\* the segment's stored content without the memoized round averages
Content(v) == [v EXCEPT !.loops = [j \in 1..Len(v.loops) |-> [v.loops[j] EXCEPT !.avg = None]]]

\* C7 (as stated): a response that fails validation does not end the main
\* loop; the run is never terminated by a validation error.
C7_ValidationNeverEndsRun == ~(pc = "failed" /\ err = "validation")

\* C9 (as stated): when the main loop has ended (stop condition or exception)
\* and the final write did not fail, the checkpoint holds every segment as it
\* stands in memory (memoized averages aside).
C9_AllChangesPersisted ==
    (pc \in {"stopped", "failed"} /\ finalWrite # "failed")
        => \A i \in Idx : Content(file[i]) = Content(verses[i])

\* C10 (as stated): an iteration whose sweep did work (adaptation, comment
\* boundary backfill, grading) selects no segment, does not advance the
\* no-improvement counter and evaluates no stop condition.
C10_SweepWorkIsExclusive ==
    tick.sweep # "none" => (tick.sel = "none" /\ ~tick.counted /\ ~tick.stopEval)

\* the rounds of a segment are counted by reflection_loops_per_verse alone:
\* no comment has moved the boundary
NoCommentBoundary == cfg.ipc = Undef /\ \A i \in Idx : verses[i].cmlc = Undef

FullyGraded(lp) == Len(lp.grades) >= cfg.G

PartlyGraded(v) ==
    /\ v.loops # <<>>
    /\ Len(Last(v.loops).grades) > 0
    /\ Len(Last(v.loops).grades) < cfg.G

\* the grading request in flight asks for the shortfall of the newest round,
\* and its grades, once recorded, complete that same round
ShortfallIntoSameRound ==
    LET t == pending.target
        k == Len(Last(verses[t].loops).grades)
    IN /\ pending.n = cfg.G - k
       /\ verses'[t].loops # verses[t].loops =>
             /\ Len(verses'[t].loops) = Len(verses[t].loops)
             /\ Len(Last(verses'[t].loops).grades) = cfg.G
             /\ SubSeq(Last(verses'[t].loops).grades, 1, k) = Last(verses[t].loops).grades

\* C3 (as stated): with grade mode enabled, a grading request for a segment
\* whose newest round holds k grades, 0 < k < grades_per_reflection_loop, asks
\* for exactly the shortfall and the new grades go into that same round.
C3_ShortfallRequested ==
    [][(pc = "call" /\ pending.kind = "grade" /\ cfg.gradeMode
          /\ PartlyGraded(verses[pending.target]))
        => ShortfallIntoSameRound]_vars

\* C3 (amended): the same, for a newest round that has no graded_verse
\* recorded yet; a round that has one is closed and grading opens a new round.
C3_ShortfallRequestedOpenRound ==
    [][(pc = "call" /\ pending.kind = "grade" /\ cfg.gradeMode
          /\ PartlyGraded(verses[pending.target])
          /\ Last(verses[pending.target].loops).gv = Absent)
        => ShortfallIntoSameRound]_vars

C3_Witness ==
    /\ cfg.gradeMode
    /\ tick.sweep = "grade"
    /\ Len(verses[tick.sweepIdx].loops) = 1
    /\ verses[tick.sweepIdx].loops[1].grades = <<50, 95>>
    /\ verses[tick.sweepIdx].loops[1].gv = Absent

\* the request useModel sends: everything in `pending` but the attempt count
Request(c) == [kind |-> c.kind, target |-> c.target, sel |-> c.sel,
               purpose |-> c.purpose, n |-> c.n]

\* what happens to a request while useModel is waiting to retry it
RetriedUnchanged ==
    pc = "backoff" =>
        /\ pc' = "call"
        /\ Request(pending') = Request(pending)
        /\ verses' = verses /\ file' = file /\ tick' = tick

\* C8: a failed service call is never passed on to the engine as an error;
\* after the wait the identical request is sent again, however many times it
\* has failed, so that an answer, when one comes, is what the engine resumes with.
C8_NeverGivesUp ==
    /\ [][RetriedUnchanged]_vars
    /\ [](err # "service")
    /\ ((pc = "backoff") ~> (pc = "call"))

C8_Witness == pc = "call" /\ pending.tries > 1

\* the segments the sweep attends to
Attended(i) == InRange(i) /\ ~verses[i].halted /\ ~Overridden(verses, i)

\* C11 (as stated): when manual_edit_mode is set and the run has stopped,
\* every in-range segment that is neither ai_halted nor overridden is adapted
\* (if adaptation is configured) and its newest round holds
\* grades_per_reflection_loop grades.
C11_ManualStopsFullyGraded ==
    (cfg.manual /\ pc = "stopped")
        => \A i \in Idx : Attended(i) =>
              /\ ~NeedsAdaptation(verses[i])
              /\ verses[i].loops # <<>>
              /\ Len(Last(verses[i].loops).grades) >= cfg.G

\* C14 (as stated): a segment with no comment_mod_loop_count never holds more
\* than reflection_loops_per_verse rounds, whatever iterations_pass_comment is
\* and whether or not an adaptation pass is configured.
C14_RoundsWithinConfigured ==
    \A i \in Idx : verses[i].cmlc = Undef => Len(verses[i].loops) <= cfg.L

\* a segment the selection loop may choose when no debug override is set
Eligible(vs, i) ==
    /\ InRange(i)
    /\ ~vs[i].fin
    /\ ~Overridden(vs, i)
    /\ ~vs[i].halted
    /\ ~vs[i].gradeOnly

Graded(vs) == {i \in Idx : Eligible(vs, i) /\ computeVerseGrade(vs[i]) # None}

ChosenIsLowest(vs, s) ==
    /\ s \in Graded(vs)
    /\ \A j \in Graded(vs) :
          /\ ~RatLess(computeVerseGrade(vs[j]), computeVerseGrade(vs[s]))
          /\ RatEq(computeVerseGrade(vs[j]), computeVerseGrade(vs[s])) => s <= j

\* C17: with no debug override, on an iteration whose sweep finds nothing to
\* do, the segment chosen for reflection or finalization is in range,
\* unfinalized, not overridden, not ai_halted, not grade_only, has the lowest
\* computeVerseGrade of all such graded segments, and is the first of those
\* with that grade in document order.
C17_LowestFirstChosen ==
    [][(pc = "loop" /\ SweepIdx(verses) = 0 /\ cfg.debug = 0 /\ tick'.selIdx # 0)
          => ChosenIsLowest(verses, tick'.selIdx)]_vars

C17_Witness ==
    /\ cfg.debug = 0
    /\ tick.sweep = "none"
    /\ tick.sel = "finalize"
    /\ tick.selIdx = 1
    /\ 2 \in Graded(verses)
    /\ RatEq(computeVerseGrade(verses[2]), verses[1].finGrade)

\* every graded segment open to selection is above highest_grade_to_reflect
LowestAboveThreshold(vs) ==
    /\ Graded(vs) # {}
    /\ \A i \in Graded(vs) : RatLess(<<HighestGradeToReflect, 1>>, computeVerseGrade(vs[i]))

\* the iteration ends the run and neither reflects on nor finalizes a segment
StopsUntouched ==
    /\ pc' \in {"stopped", "failed"}
    /\ tick'.sel = "none"
    /\ \A i \in Idx : Content(verses'[i]) = Content(verses[i])

\* no reflection call is in flight for a segment graded above the threshold
NoReflectionAboveThreshold ==
    (pc \in {"call", "backoff"} /\ pending.kind \in {"summarize", "correct"}
       /\ computeVerseGrade(verses[pending.target]) # None)
        => ~RatLess(<<HighestGradeToReflect, 1>>, computeVerseGrade(verses[pending.target]))

\* C18 (as stated): on an iteration where no grading was needed and the lowest
\* grade among the selectable segments is above highest_grade_to_reflect, the
\* run stops without reflecting on or finalizing any segment.
C18_AboveThresholdStops ==
    [][(pc = "loop" /\ SweepIdx(verses) = 0 /\ LowestAboveThreshold(verses))
          => StopsUntouched]_vars

\* C18 (amended): the same when no debug_force_vref is configured, and then no
\* reflection is ever requested for a segment graded above the threshold; a
\* configured debug_force_vref bypasses the threshold test.
C18_AboveThresholdStopsNoDebug ==
    /\ [][(pc = "loop" /\ SweepIdx(verses) = 0 /\ cfg.debug = 0
            /\ LowestAboveThreshold(verses))
          => StopsUntouched]_vars
    /\ [](cfg.debug = 0 => NoReflectionAboveThreshold)

C18_Witness ==
    /\ pc = "stopped"
    /\ cfg.debug = 0 /\ ~cfg.manual /\ cfg.iwiMax = Undef
    /\ tick.sweep = "none" /\ tick.sel = "none"
    /\ LowestAboveThreshold(verses)

\* C19: a missing credential, or a first/last verse reference matching no
\* segment, ends the run with that error before any capability call is issued
\* and before the engine writes the checkpoint or touches a segment.
C19_StartupErrorAbortsFirst ==
    (~cfg.apiKey \/ ~cfg.refsMatch)
        => /\ pc \in {"start", "failed"}
           /\ pc = "failed" => err \in {"credential", "reference"}
           /\ pending = NoCall
           /\ finalWrite = "none"
           /\ verses = file

C19_Witness == pc = "failed" /\ err = "reference" /\ pending = NoCall /\ verses = file

\* round j of w received its graded_verse in the step from v to w
GradedVerseWritten(v, w, j) ==
    /\ j <= Len(w.loops)
    /\ w.loops[j].gv # Absent
    /\ (j > Len(v.loops) \/ v.loops[j].gv = Absent)

\* round j of w received its first grade in the step from v to w
FirstGradeLands(v, w, j) ==
    /\ j <= Len(w.loops)
    /\ w.loops[j].grades # <<>>
    /\ (j > Len(v.loops) \/ v.loops[j].grades = <<>>)

\* C24 (as stated): a round's graded_verse is written in the step in which
\* the first grade is appended to the round, and no later engine step
\* assigns it again.
C24_GradedVerseWrittenOnce ==
    [][\A i \in Idx : \A j \in 1..Len(verses'[i].loops) :
          /\ GradedVerseWritten(verses[i], verses'[i], j)
                <=> FirstGradeLands(verses[i], verses'[i], j)
          /\ (j <= Len(verses[i].loops) /\ verses[i].loops[j].gv # Absent)
                => verses'[i].loops[j].gv = verses[i].loops[j].gv]_vars

\* C25 (as stated): reflection_is_finalized, reflection_finalized_grade and
\* reflection_finalized_comment change only in a step that finalizes the
\* segment, and then all three change.
C25_FinalizedFieldsTogether ==
    [][\A i \in Idx :
          (\/ verses'[i].fin # verses[i].fin
           \/ verses'[i].finGrade # verses[i].finGrade
           \/ verses'[i].finComment # verses[i].finComment)
              => /\ tick'.sel = "finalize" /\ tick'.selIdx = i
                 /\ verses'[i].fin # verses[i].fin
                 /\ verses'[i].finGrade # verses[i].finGrade
                 /\ verses'[i].finComment # verses[i].finComment]_vars

IsPrefix(s, t) == Len(s) <= Len(t) /\ SubSeq(t, 1, Len(s)) = s

C28_OverriddenUntouched ==
    \A i \in Idx :
        Overridden(verses, i)
            => /\ ~(pc \in {"call", "backoff"} /\ pending.target = i)
               /\ ~(tick.sel \in {"reflect", "finalize"} /\ tick.selIdx = i)

\* ===================================================================
\* Properties of the Grade Aggregator (specification SpecGrade)

\* C4: for a finalized segment computeVerseGrade returns
\* reflection_finalized_grade, whatever has been changed in the grades and
\* averages of its rounds since.
C4_FinalizedGradeReturned ==
    (lastCall.op = "computeVerseGrade" /\ verseIsFinalized(verses[lastCall.i]))
        => lastCall.result = verses[lastCall.i].finGrade

C4_Witness ==
    /\ lastCall.op = "computeVerseGrade"
    /\ verseIsFinalized(verses[lastCall.i])
    /\ lastCall.result # None
    /\ ~RatEq(LoopGrade(Last(verses[lastCall.i].loops)), lastCall.result)

\* C5: finalizeVerse called on a segment that is already finalized changes
\* no field of the segment.
C5_FinalizeIdempotent ==
    [][\A i \in Idx :
          (lastCall'.op = "finalizeVerse" /\ lastCall'.i = i /\ verseIsFinalized(verses[i]))
              => verses'[i] = verses[i]]_vars

C5_Witness ==
    /\ lastCall.op = "finalizeVerse"
    /\ lastCall.fin
    /\ verseIsFinalized(verses[lastCall.i])
    /\ Len(verses[lastCall.i].loops) >= 1

\* the rounds finalization may choose from: fully graded, at or after the
\* comment boundary
FullRounds(v) ==
    {j \in 1..Len(v.loops) : j > CmlcOr(v, 0) /\ Len(v.loops[j].grades) >= cfg.G}

RoundAverage(lp) == <<SumSeq(lp.grades), Len(lp.grades)>>

IsBestRound(v, b) ==
    /\ b \in FullRounds(v)
    /\ \A j \in FullRounds(v) : ~RatLess(RoundAverage(v.loops[b]), RoundAverage(v.loops[j]))

\* C15: when finalizeVerse finalizes a segment, reflection_finalized_grade is
\* the highest average of its fully graded rounds at index >=
\* comment_mod_loop_count, and the translation becomes the graded_verse of a
\* round with that average.
C15_FinalizedIsBest ==
    [][\A i \in Idx :
          (~verses[i].fin /\ verses'[i].fin)
              => \E b \in FullRounds(verses[i]) :
                    /\ IsBestRound(verses[i], b)
                    /\ RatEq(verses'[i].finGrade, RoundAverage(verses[i].loops[b]))
                    /\ verses'[i].tr = verses'[i].loops[b].gv]_vars

C15_Witness ==
    /\ lastCall.op = "finalizeVerse"
    /\ ~lastCall.fin
    /\ verses[lastCall.i].fin
    /\ verses[lastCall.i].cmlc = 1
    /\ Len(verses[lastCall.i].loops) = 2
    /\ RatLess(verses[lastCall.i].finGrade, RoundAverage(verses[lastCall.i].loops[1]))

\* the state in which a segment is due for finalization
MayFinalize(v) ==
    /\ v.loops # <<>>
    /\ Len(v.loops) >= Max2(1, computeReflectionLoopsNeeded(v))
    /\ Len(Last(v.loops).grades) >= cfg.G

\* C16: reflection_is_finalized goes from false to true only in a state where
\* the segment holds at least max(1, rounds-needed) rounds and its newest
\* round holds grades_per_reflection_loop grades; finalizeVerse called in any
\* other state leaves the segment unchanged.
C16_FinalizedOnlyWhenDue ==
    [][\A i \in Idx :
          /\ (~verses[i].fin /\ verses'[i].fin) => MayFinalize(verses[i])
          /\ (lastCall'.op = "finalizeVerse" /\ lastCall'.i = i /\ ~MayFinalize(verses[i]))
                => verses'[i] = verses[i]]_vars

C16_Witness ==
    /\ lastCall.op = "finalizeVerse"
    /\ ~lastCall.fin
    /\ ~verses[lastCall.i].fin
    /\ Len(verses[lastCall.i].loops) = 1
    /\ Len(verses[lastCall.i].loops[1].grades) = cfg.G
    /\ ~MayFinalize(verses[lastCall.i])

\* C27: a round's average_grade is memoized only when the round holds at
\* least grades_per_reflection_loop grades, and computeGradeForReflectionLoop
\* on a round with a memoized average returns that average and keeps it,
\* whatever grades the round holds at that time.
C27_MemoizedAverageReturned ==
    [][\A i \in Idx : \A j \in 1..Len(verses[i].loops) :
          /\ (/\ lastCall'.op # "change"
              /\ verses[i].loops[j].avg = None
              /\ verses'[i].loops[j].avg # None)
                => Len(verses'[i].loops[j].grades) >= cfg.G
          /\ (/\ lastCall'.op = "computeGradeForReflectionLoop"
              /\ lastCall'.i = i /\ lastCall'.j = j
              /\ verses[i].loops[j].avg # None)
                => /\ lastCall'.result = verses[i].loops[j].avg
                   /\ verses'[i].loops[j].avg = verses[i].loops[j].avg]_vars

C27_Witness ==
    /\ lastCall.op = "computeGradeForReflectionLoop"
    /\ verses[lastCall.i].loops[lastCall.j].avg # None
    /\ lastCall.result = verses[lastCall.i].loops[lastCall.j].avg
    /\ ~RatEq(lastCall.result, RoundAverage(verses[lastCall.i].loops[lastCall.j]))

\* ===================================================================
\* Properties of the ingestion (specification SpecIngest)

\* the source file was ingested and its text for segment i differs from the
\* source text the segment had, and the segment had history
SourceChanged(i) ==
    /\ "source" \in ingest.files
    /\ ingest.src[i] # ingest.before[i].src
    /\ ingest.before[i].loops # <<>>

ResetToOldest(i) ==
    /\ file[i].loops = <<>>
    /\ ~verseIsFinalized(file[i])
    /\ file[i].tr = getOldestTranslation(ingest.before[i])

CommentsSettled == pc = "ingest" /\ ingest.phase = "none" /\ ~ingest.stale

\* the segment stands reset in the checkpoint
ResetInCheckpoint(i) ==
    /\ file[i].loops = <<>>
    /\ file[i].tr = getOldestTranslation(ingest.before[i])

\* C12 (as stated): with reset_reflection_loops_on_update enabled, once the
\* ingestion has run to its end, every segment touched by a comment addition
\* or removal stands reset in the checkpoint (no rounds, translation equal to
\* its oldest draft), also when the process was killed during an ingestion
\* and the ingestion was run again.
C12_CommentResetSurvivesKill ==
    (cfg.reset /\ CommentsSettled) => \A i \in ingest.owed : ResetInCheckpoint(i)

\* ===================================================================
\* Properties of the worker (specification SpecWorker)

IterationsPassComment ==
    IF cfg.ipc = Undef THEN ITERATIONS_PASS_COMMENT_DEFAULT ELSE cfg.ipc

\* the rounds the segment held when the engine started after the ingestion
RoundsAfterIngestion(i) ==
    IF cfg.reset THEN 0 ELSE Len(ingest.before[i].loops)

\* C13 (as stated): a segment for which the ingestion reported a comment
\* added is finalized by the engine only after at least
\* iterations_pass_comment further rounds, for every
\* reflection_loops_per_verse and reset_reflection_loops_on_update.
C13_CommentGetsExtraRounds ==
    \A i \in Idx :
        (/\ pc # "ingest"
         /\ i \in ingest.owed
         /\ i \in ingest.codex
         /\ tick.sel = "finalize" /\ tick.selIdx = i /\ verses[i].fin)
            => Len(verses[i].loops) - RoundsAfterIngestion(i) >= IterationsPassComment

\* ===================================================================
\* Properties of saveJsonl (specification SpecSave)

\* C20: at every point of saveJsonl, also when the process is interrupted or
\* a write fails, the checkpoint file holds either the complete collection
\* saved before or the complete new one.
C20_CheckpointOldOrNew ==
    file = ingest.before \/ file = verses

C20_Witness ==
    /\ pc = "interrupted"
    /\ tempFile.exists
    /\ Len(tempFile.lines) = 1
    /\ file = ingest.before
    /\ file # verses

\* ===================================================================
\* Properties of the engine followed by an ingestion (specification
\* SpecReingest)

\* the ingestion has read every file and saved the checkpoint
Reingested == pc = "ingest" /\ ingest.phase = "done"

\* C21 (as stated): re-ingesting a target file whose text for a segment is as
\* it was first ingested never resets the segment, whatever the engine has
\* done to its translation in between.
C21_UnchangedTargetNeverResets ==
    Reingested =>
        \A i \in Idx : ingest.tgt[i] = FirstIngested => file[i] = ingest.before[i]

\* comment_mod_loop_count went down from v to w
CmlcDecreased(v, w) ==
    /\ v.cmlc # Undef
    /\ (w.cmlc = Undef \/ w.cmlc < v.cmlc)

\* C22: comment_mod_loop_count of a segment never decreases across an engine
\* tick or an ingestion step, in memory or in the checkpoint, except in a
\* reset step that in the same step empties the segment's reflection_loops.
C22_BoundaryOnlyDropsOnReset ==
    [][\A i \in Idx :
          /\ CmlcDecreased(verses[i], verses'[i]) => verses'[i].loops = <<>>
          /\ CmlcDecreased(file[i], file'[i]) => file'[i].loops = <<>>]_vars

C22_Witness ==
    /\ Reingested
    /\ \E i \in Idx :
          /\ ingest.before[i].cmlc = 1
          /\ ingest.before[i].loops # <<>>
          /\ file[i].cmlc = 0
          /\ file[i].loops = <<>>

\* ===================================================================
\* Properties of saveJsonl followed by loadJsonl (specification
\* SpecRoundTrip)

\* C23: for any collection, the empty one and segments without rounds
\* included, loadJsonl of the file written by saveJsonl yields a collection
\* equal to the one saved, field for field and in the same order.
C23_SaveLoadRoundTrip ==
    pc = "loaded" => verses = ingest.before

C23_Witness ==
    /\ pc = "loaded"
    /\ verses = <<>>
    /\ ingest.before = <<>>

\* ===================================================================
\* Properties of loadCommentsFromFile (specification SpecLedger)
\* ===================================================================
\* the (body, id) pairs of the comments that are not deleted, in the
\* threads that are not deleted, of comments.json
SourcePairSet(threads) ==
    UNION {{<<threads[t].comments[c].body, threads[t].cellId>> :
               c \in {c \in 1..Len(threads[t].comments) : ~threads[t].comments[c].deleted}} :
           t \in {t \in 1..Len(threads) : ~threads[t].deleted}}

\* the (body, id) pairs of the ledger
LedgerPairSet(collectedComments) ==
    UNION {{<<collectedComments[k].comment, collectedComments[k].ids[m]>> :
               m \in 1..Len(collectedComments[k].ids)} :
           k \in 1..Len(collectedComments)}

\* the ids of the pairs that one of the two holds and the other does not
ChangedIds(threads, collectedComments) ==
    {p[2] : p \in SymDiff(SourcePairSet(threads), LedgerPairSet(collectedComments))}

\* C29: a call of loadCommentsFromFile returns exactly the ids i for which
\* some pair (comment body, i) is in comments.json and not in the stored
\* ledger, or in the stored ledger and not in comments.json; an id whose
\* pairs are all unchanged is not returned.
C29_ReturnsChangedIds ==
    [][pc' \in {"returned", "threw"} =>
          /\ pc' = "returned"
          /\ {ingest'.touchedIds[k] : k \in 1..Len(ingest'.touchedIds)}
                 = ChangedIds(ingest.codexComments, ingest.collectedComments)]_vars

\* C30: after loadCommentsFromFile returns, the pairs of the persisted
\* ledger are those of the comments that are not deleted in the threads
\* that are not deleted of comments.json, and no entry of the ledger has an
\* empty list of ids.
C30_LedgerEqualsSource ==
    pc = "returned" =>
        /\ LedgerPairSet(ingest.collectedComments) = SourcePairSet(ingest.codexComments)
        /\ \A k \in 1..Len(ingest.collectedComments) : ingest.collectedComments[k].ids # <<>>

\* a call that added an id to the ledger and removed the last id of an
\* entry, whose thread was deleted
C30_Witness ==
    /\ pc = "returned"
    /\ Len(ingest.touchedIds) = 2
    /\ Len(ingest.collectedComments) = 1
    /\ \E t \in 1..Len(ingest.codexComments) :
           /\ ingest.codexComments[t].deleted
           /\ ingest.codexComments[t].comments # <<>>
           /\ ~ingest.codexComments[t].comments[1].deleted

\* ===================================================================
\* Properties of the Staleness Tracker (specification SpecModTimes)
\* ===================================================================
\* C31: updated_mod_time of a file is advanced, to its observed_mod_time,
\* only after the file was ingested without error and the checkpoint was
\* written; a file whose ingestion threw keeps observed_mod_time >
\* updated_mod_time and is among the files to update of the next run; and
\* observed_mod_time never decreases.
C31_AdvancedOnlyAfterIngestion ==
    [][\A f \in WatchedFiles :
          /\ ingest'.tracked[f].updated # ingest.tracked[f].updated =>
                /\ f \in ingest.successfullyUpdatedFiles
                /\ f \notin ingest.threw
                /\ ingest.written
                /\ ingest'.tracked[f].updated = ingest.trackingModTimes[f].observed
          /\ f \in ingest'.threw => ingest'.tracked[f].observed > ingest'.tracked[f].updated
          /\ pc = "idle" /\ pc' = "files" /\ f \in ingest.threw => f \in ingest'.todo
          /\ ingest'.tracked[f].observed >= ingest.tracked[f].observed]_vars

\* a run has recorded one file as updated while the ingestion of the other
\* threw, and an older copy of a file has been restored since it was observed
C31_Witness ==
    /\ pc = "idle"
    /\ ingest.tracked["target"].updated = MaxModTime
    /\ ingest.threw = {"comments"}
    /\ ingest.tracked["comments"].observed > ingest.mtime["comments"]
    /\ ingest.mtime["comments"] > 0

\* ===================================================================
\* Properties of the audit CSV (specification SpecCsv)
\* ===================================================================
\* C32: once every stream has been flushed the file holds the header line
\* once, as its first line, followed by one row per iteration in the order
\* of the iterations, also when an iteration checked the file while the
\* stream of the iteration before it was not yet flushed.
C32_HeaderOnceThenRows ==
    ingest.streams = <<>> /\ ingest.ticks > 0 =>
        ingest.csv = <<Header>> \o [n \in 1..ingest.ticks |-> n]

\* ===================================================================
\* Properties of compareReflectionContentItems (specification SpecSort)
\* ===================================================================
\* C33: the comparison is a consistent ordering: the sign of compare(a, b)
\* is the opposite of the sign of compare(b, a), and compare(a, b) <= 0 with
\* compare(b, c) <= 0 implies compare(a, c) <= 0, for known books, unknown
\* books and references that do not match the pattern.
C33_ConsistentOrdering ==
    ingest.compared =>
        /\ Sign(ingest.ab) = -Sign(ingest.ba)
        /\ ingest.ab <= 0 /\ ingest.bc <= 0 => ingest.ac <= 0

\* C34: with no debug_force_vref, and every capability call eventually
\* succeeding, runConfigLowestGradePriority eventually stops, whether or not
\* iterations_without_improvement_max is set
C34_EventuallyStops == cfg.debug = 0 => <>(pc \in {"stopped", "failed"})

\* the run was stopped by the test of lines 3205-3211: the lowest grade found
\* among the segments open to selection is above highest_grade_to_reflect
StoppedAboveThreshold ==
    /\ pc = "stopped"
    /\ tick.done
    /\ ~cfg.manual
    /\ LowestGradeFound(verses) # None
    /\ RatLess(<<HighestGradeToReflect, 1>>, LowestGradeFound(verses))

\* the newest round is graded and no earlier round has a higher average
NewestIsBest(v) ==
    /\ v.loops # <<>>
    /\ LoopGrade(Last(v.loops)) # None
    /\ \A j \in 1..(Len(v.loops) - 1) :
          LoopGrade(v.loops[j]) # None
              => ~RatLess(LoopGrade(Last(v.loops)), LoopGrade(v.loops[j]))

C36_HaltedUntouched ==
    [][cfg.debug = 0
          => \A i \in Idx : verses[i].halted => Content(verses'[i]) = Content(verses[i])]_vars

\* C37: the HTML report covers exactly the segments the engine treats as in
\* range: the positions start_line through end_line inclusive.
C37_ReportCoversRange ==
    ingest.made
        => {ingest.report[k] : k \in 1..Len(ingest.report)}
               = {i \in 1..Len(ingest.content) : InRange(i)}

\* C38: after any sequence of iterations under a fixed configuration no round
\* holds more than grades_per_reflection_loop grades, whether grade mode is
\* enabled or disabled.
C38_RoundHoldsAtMostG ==
    \A i \in Idx : \A j \in 1..Len(verses[i].loops) : Len(verses[i].loops[j].grades) <= cfg.G

\* the grading step has topped up a partly graded round to exactly
\* grades_per_reflection_loop grades
C38_Witness ==
    /\ pc = "loop"
    /\ \E i \in Idx :
          /\ file[i].loops # <<>>
          /\ verses[i].loops # <<>>
          /\ Len(file[i].loops[1].grades) < Len(verses[i].loops[1].grades)
          /\ Len(verses[i].loops[1].grades) = cfg.G

\* the starts of Init, and the starts over a checkpoint in which the ingestion
\* has made a segment from a source cell whose target cell is still empty:
\* the segment has a reference and a source text and no translation
UntranslatedVerse == [BaseVerse EXCEPT !.tr = Null]

InitUntranslated ==
    \/ Init
    \/ /\ cfg \in {BaseCfg, [BaseCfg EXCEPT !.L = 2]}
       /\ file \in {[i \in Idx |-> IF i = k THEN UntranslatedVerse ELSE BaseVerse] : k \in Idx}
       /\ verses = file
       /\ pc = "start"
       /\ ingest = NoIngest
       /\ lastCall = NoLibCall
       /\ Idle

SpecUntranslated == InitUntranslated /\ [][Next]_vars

\* C39: after any sequence of iterations every round of a segment other than
\* its newest has graded_verse recorded, so that the round chosen by
\* finalization carries a text to copy back: a finalized segment's translation
\* is a text.
C39_EarlierRoundsHaveText ==
    \A i \in Idx :
        /\ \A j \in 1..(Len(verses[i].loops) - 1) : verses[i].loops[j].gv # Absent
        /\ verses[i].fin => Truthy(verses[i].tr)

\* ------------------------------------------- the host and its worker thread
\* The extension host's module variable reflectionWorker (0: null), the worker
\* threads that are running (alive), the threads that have ended and whose
\* 'exit' event the host has not handled yet (ended, with the exit code), the
\* number of workers made so far, the starts that found a worker in place,
\* and the panel's running flag.
MaxWorkers == 3
MaxRefused == 2

NoWorker == 0

Host0 ==
    [reflectionWorker |-> NoWorker, alive |-> {}, ended |-> {}, code |-> 0,
     made |-> 0, refused |-> 0, running |-> FALSE, last |-> "none"]

InitHost ==
    /\ cfg = BaseCfg
    /\ verses = [i \in Idx |-> BaseVerse]
    /\ file = verses
    /\ pc = "host"
    /\ ingest = Host0
    /\ lastCall = NoLibCall
    /\ Idle

startReflectionWorker_NoTest(h) ==
    [h EXCEPT !.reflectionWorker = h.made + 1, !.alive = @ \cup {h.made + 1},
              !.made = @ + 1, !.last = "start"]

\* startReflectionWorker: a new Worker only if reflectionWorker is null
startReflectionWorker(h) ==
    IF h.reflectionWorker = NoWorker
    THEN [h EXCEPT !.reflectionWorker = h.made + 1, !.alive = @ \cup {h.made + 1},
                   !.made = @ + 1, !.last = "start"]
    ELSE [h EXCEPT !.refused = @ + 1, !.last = "start"]

\* the counters of the model stay within their bounds
HostWithinBounds(h) == h.made <= MaxWorkers /\ h.refused <= MaxRefused

HostStep(h) ==
    /\ pc = "host"
    /\ HostWithinBounds(h)
    /\ ingest' = h
    /\ UNCHANGED <<cfg, tempFile, verses, file, pc, lastCall, engineVars>>

\* the command codex-reflection.reflect
CommandReflect == HostStep(startReflectionWorker(ingest))

\* the command codex-reflection.startReflection: the panel shows the run
\* before the worker is asked for
CommandStartReflection ==
    HostStep(startReflectionWorker([ingest EXCEPT !.running = TRUE]))

\* the worker reports that the run has finished; the thread is still there
MessageFinished ==
    /\ ingest.alive # {}
    /\ ingest.running
    /\ HostStep([ingest EXCEPT !.running = FALSE, !.last = "message"])

\* the worker thread ends, with exit code 0 or after a failure; the host has
\* not been told yet
WorkerEnds ==
    \E w \in ingest.alive, c \in {0, 1} :
        HostStep([ingest EXCEPT !.alive = @ \ {w}, !.ended = @ \cup {w}, !.code = c,
                                !.last = "ends"])

\* the handler of the worker's 'exit' event
OnExit ==
    \E w \in ingest.ended :
        HostStep([ingest EXCEPT !.ended = @ \ {w}, !.reflectionWorker = NoWorker,
                                !.running = FALSE, !.last = "exit"])

NextHost ==
    \/ CommandReflect
    \/ CommandStartReflection
    \/ MessageFinished
    \/ WorkerEnds
    \/ OnExit

SpecHost == InitHost /\ [][NextHost]_vars

isReflectionWorkerRunning == ingest.reflectionWorker # NoWorker

\* C40: at most one reflection worker exists at any time: a start while a
\* worker is in place makes no second worker, the worker reference is cleared
\* only by the handler of the worker's exit event, and a start after that
\* event makes a new worker.
C40_AtMostOneWorker ==
    [][/\ Cardinality(ingest'.alive \cup ingest'.ended) <= 1
       /\ ingest'.alive \cup ingest'.ended \subseteq {ingest'.reflectionWorker}
       /\ (ingest'.last = "start" /\ isReflectionWorkerRunning)
             => ingest'.made = ingest.made /\ ingest'.alive = ingest.alive
       /\ (ingest'.last = "start" /\ ~isReflectionWorkerRunning)
             => /\ ingest'.made = ingest.made + 1
                /\ ingest'.alive = {ingest'.reflectionWorker}
                /\ ingest'.reflectionWorker \notin 0..ingest.made
       /\ (isReflectionWorkerRunning /\ ingest'.reflectionWorker = NoWorker)
             => ingest'.last = "exit" /\ ingest.reflectionWorker \in ingest.ended]_vars

\* a second worker is running after the first has exited, and a start that
\* found it in place has been turned down
C40_Witness ==
    /\ pc = "host"
    /\ ingest.made = 2
    /\ ingest.alive = {2}
    /\ ingest.reflectionWorker = 2
    /\ ingest.refused >= 1
    /\ ingest.last = "start"

====
